---- MODULE Spec2Model ----
(***************************************************************************)
(* A model of lokal's locale store (FileStorage), its incremental sync     *)
(* engine (AITranslator) and its Gemini provider, the `lokal translate`    *)
(* command, the source rewriter (ASTWrapper), the scanner (ASTParser) and  *)
(* the React provider (LokalProvider).                                     *)
(*                                                                         *)
(* JavaScript values are tagged records: a string leaf, an object (a map   *)
(* from own property names to values) or undefined.  A text is a TLA+      *)
(* string; a path, a locale identifier or a text of a source file, whose   *)
(* characters matter, is a sequence of one-character strings.  A source    *)
(* file is the sequence of its lines, a JSON file the sequence of its      *)
(* tokens.                                                                 *)
(***************************************************************************)
EXTENDS Integers, Sequences, FiniteSets, TLC

VARIABLES
    disk,     \* the filesystem: path string -> file content
    ret,      \* FileStorage: the last call, its arguments and its outcome
    hashes,   \* AITranslator.existingHashes: key -> content hash
    src,      \* the caller's source catalog
    tgt,      \* the caller's target catalog
    call,     \* AITranslator: the last translateMissingKeys call and its outcome
    lastOk,   \* history: key -> source text of its last applied translation
    cli,      \* translateCommand: position, remaining locales, what it saw
    saved,    \* history: locale identifier -> the catalog last saved under it
    wrapper,  \* the ASTWrapper: its options and the lastIndex of its patterns
    wrap,     \* ASTWrapper / ASTParser: the last call and its outcome
    answers,  \* history: arguments -> the answers shouldExclude (generateKey)
              \* has returned for them
    rewritten, \* history: the files whose content is what wrapFile last wrote
    fetched,  \* GeminiProvider: the last translate call, its request and outcome
    writer,   \* a saveLocale under way in another process: its file, its position
    react     \* LokalProvider: its state, effects and pending storage reads

vars == <<disk, ret, hashes, src, tgt, call, lastOk, cli, saved, wrapper, wrap, answers,
          rewritten, fetched, writer, react>>

storeVars == <<disk, ret, saved>>
syncVars == <<hashes, src, tgt, call, lastOk>>
wrapVars == <<wrapper, wrap, answers, rewritten>>
procVars == <<fetched, writer, react>>

(***************************************************************************)
(* JavaScript values                                                       *)
(***************************************************************************)
NoFields == [n \in {} |-> 0]

\* a string
Str(x) == [t |-> "s", s |-> x, f |-> NoFields]

\* a plain object with own enumerable properties DOMAIN fields
Obj(fields) == [t |-> "o", s |-> "", f |-> fields]

\* undefined
Undefined == [t |-> "u", s |-> "", f |-> NoFields]

EmptyObj == Obj(NoFields)

\* typeof v
TypeOf(v) == CASE v.t = "s" -> "string" [] v.t = "o" -> "object" [] OTHER -> "undefined"

\* v is truthy: a non-empty string or an object
Truthy(v) == (v.t = "s" /\ v.s # "") \/ v.t = "o"

\* F(v), with v computed once however often F uses it
Once(v, F(_)) == CHOOSE r \in {F(x) : x \in {v}} : TRUE

\* obj[key] on an object (own properties only are modelled)
Get(obj, key) == IF obj.t = "o" /\ key \in DOMAIN obj.f THEN obj.f[key] ELSE Undefined

\* every object whose property names come from names and values from vals
ObjsOver(names, vals) == {Obj(g) : g \in UNION {[D -> vals] : D \in SUBSET names}}

\* the value at a path of property names, Undefined when the path leaves the tree
RECURSIVE At(_, _)
At(v, p) ==
    IF p = <<>> THEN v
    ELSE IF v.t = "o" /\ Head(p) \in DOMAIN v.f THEN At(v.f[Head(p)], Tail(p))
    ELSE Undefined

\* the paths of all string leaves of a value
RECURSIVE LeafPaths(_)
LeafPaths(v) ==
    IF v.t = "s" THEN {<<>>}
    ELSE IF v.t = "o"
         THEN UNION {{<<k>> \o p : p \in LeafPaths(v.f[k])} : k \in DOMAIN v.f}
         ELSE {}

\* the paths of all own properties of a value, at every depth
RECURSIVE PropPaths(_)
PropPaths(v) ==
    IF v.t = "o"
    THEN UNION {{<<k>>} \cup {<<k>> \o p : p \in PropPaths(v.f[k])} : k \in DOMAIN v.f}
    ELSE {}

(***************************************************************************)
(* Paths (POSIX): strings are sequences of characters                      *)
(***************************************************************************)
\* str.startsWith(prefix)
StartsWith(str, prefix) ==
    /\ Len(prefix) <= Len(str)
    /\ SubSeq(str, 1, Len(prefix)) = prefix

\* str.includes(sub)
Includes(str, sub) ==
    \E i \in 1..(Len(str) - Len(sub) + 1) : SubSeq(str, i, i + Len(sub) - 1) = sub

\* str.split('/')
SplitSlash(str) ==
    LET RECURSIVE go(_, _, _)
        go(i, cur, acc) ==
            IF i > Len(str) THEN Append(acc, cur)
            ELSE IF str[i] = "/" THEN go(i + 1, <<>>, Append(acc, cur))
            ELSE go(i + 1, Append(cur, str[i]), acc)
    IN go(1, <<>>, <<>>)

\* the segments of a path after normalisation: '' and '.' dropped, '..' pops
NormalizeSegments(segs) ==
    LET RECURSIVE go(_, _)
        go(i, acc) ==
            IF i > Len(segs) THEN acc
            ELSE IF segs[i] = <<>> \/ segs[i] = <<".">> THEN go(i + 1, acc)
            ELSE IF segs[i] = <<".", ".">>
                 THEN go(i + 1, IF acc = <<>> THEN acc ELSE SubSeq(acc, 1, Len(acc) - 1))
            ELSE go(i + 1, Append(acc, segs[i]))
    IN go(1, <<>>)

\* an absolute path string from its segments
JoinSegments(segs) ==
    LET RECURSIVE go(_, _)
        go(i, acc) == IF i > Len(segs) THEN acc ELSE go(i + 1, acc \o <<"/">> \o segs[i])
    IN IF segs = <<>> THEN <<"/">> ELSE go(1, <<>>)

\* the normalised segments of path.resolve(base, p), base absolute
ResolveSegments(base, p) ==
    IF p # <<>> /\ p[1] = "/"
    THEN NormalizeSegments(SplitSlash(p))
    ELSE NormalizeSegments(SplitSlash(base \o <<"/">> \o p))

\* path.resolve(base, p)
PathResolve(base, p) == JoinSegments(ResolveSegments(base, p))

(***************************************************************************)
(* FileStorage                                                             *)
(***************************************************************************)
\* this.basePath, already resolved by the constructor: "/r"
BasePath == <<"/", "r">>

JsonExt == <<".", "j", "s", "o", "n">>

DotDot == <<".", ".">>

\* getLocalePath: the target path, or a thrown Security Error
getLocalePath(locale) ==
    IF Includes(locale, DotDot)
    THEN [thrown |-> TRUE, path |-> <<>>]
    ELSE LET targetPath == PathResolve(BasePath, locale \o JsonExt)
         IN IF ~StartsWith(targetPath, BasePath)
            THEN [thrown |-> TRUE, path |-> <<>>]
            ELSE [thrown |-> FALSE, path |-> targetPath]

\* the own property names deepMerge refuses to copy
ForbiddenKeys == {"__proto__", "constructor", "prototype"}

\* target[key] || {}
OrEmpty(v) == IF Truthy(v) THEN v ELSE EmptyObj

\* deepMerge(target, source)
RECURSIVE deepMerge(_, _)
deepMerge(target, source) ==
    IF TypeOf(target) # "object" \/ TypeOf(source) # "object"
    THEN source
    ELSE LET keys == DOMAIN source.f \ ForbiddenKeys
         IN Obj([k \in DOMAIN target.f \cup keys |->
                    IF k \in keys
                    THEN IF TypeOf(source.f[k]) = "object"
                         THEN deepMerge(OrEmpty(Get(target, k)), source.f[k])
                         ELSE source.f[k]
                    ELSE target.f[k]])

\* ContentHasher.hashLocaleData: the digest of JSON.stringify(data, sorted top
\* keys).  The array replacer keeps, at every depth, only the properties named
\* like a top-level key; the digest stands for the serialisation it is taken of.
RECURSIVE KeepKeys(_, _)
KeepKeys(v, allowed) ==
    IF v.t = "o"
    THEN Obj([k \in DOMAIN v.f \cap allowed |-> KeepKeys(v.f[k], allowed)])
    ELSE v

hashLocaleData(data) == KeepKeys(data, DOMAIN data.f)

\* the LocaleFile document saveLocale builds (lastUpdated, a wall-clock stamp no
\* operation reads, is left out)
LocaleFile(locale, data) == [locale |-> locale, data |-> data, hash |-> hashLocaleData(data)]

\* --- JSON text: a sequence of tokens
Tok(t) == [t |-> t, s |-> ""]

\* a string literal
StrTok(x) == [t |-> "str", s |-> x]

\* the own property names of an object one after the other (one order per set
\* of names; no operation of the store depends on the order)
KeyOrder(S) ==
    IF S = {} THEN <<>>
    ELSE CHOOSE q \in [1..Cardinality(S) -> S] :
             \A i, j \in 1..Cardinality(S) : i # j => q[i] # q[j]

\* the JSON text of a value: properties whose value is undefined are left out
RECURSIVE StringifyValue(_)
StringifyValue(v) ==
    IF v.t = "s" THEN <<StrTok(v.s)>>
    ELSE LET keys == KeyOrder({k \in DOMAIN v.f : v.f[k].t # "u"})
             RECURSIVE members(_)
             members(i) ==
                 IF i > Len(keys) THEN <<>>
                 ELSE (IF i > 1 THEN <<Tok(",")>> ELSE <<>>)
                      \o <<StrTok(keys[i]), Tok(":")>>
                      \o StringifyValue(v.f[keys[i]]) \o members(i + 1)
         IN <<Tok("{")>> \o members(1) \o <<Tok("}")>>

\* a locale identifier as the string it is
RECURSIVE ToStr(_)
ToStr(chars) == IF chars = <<>> THEN "" ELSE Head(chars) \o ToStr(Tail(chars))

\* JSON.stringify(localeFile, null, 2): the file content.  The digest in hash
\* is written as the serialisation it is taken of.
JSONStringify(doc) ==
    [kind |-> "file",
     text |-> StringifyValue(Obj([k \in {"locale", "data", "hash"} |->
                 CASE k = "locale" -> Str(ToStr(doc.locale))
                   [] k = "data" -> doc.data
                   [] OTHER -> doc.hash]))]

\* no value: the text is not JSON
SyntaxError == [ok |-> FALSE, value |-> Undefined, rest |-> <<>>]

\* JSON.parse by recursive descent: a value at the head of ts, and what follows it
RECURSIVE ParseValue(_)
RECURSIVE ParseMembers(_, _)
ParseValue(ts) ==
    IF ts = <<>> THEN SyntaxError
    ELSE IF Head(ts).t = "str"
         THEN [ok |-> TRUE, value |-> Str(Head(ts).s), rest |-> Tail(ts)]
    ELSE IF Head(ts).t # "{" THEN SyntaxError
    ELSE IF Len(ts) >= 2 /\ ts[2].t = "}"
         THEN [ok |-> TRUE, value |-> EmptyObj, rest |-> SubSeq(ts, 3, Len(ts))]
    ELSE ParseMembers(Tail(ts), NoFields)

\* the members of an object from a property name on; a repeated name keeps its
\* last value
ParseMembers(ts, acc) ==
    IF Len(ts) < 3 \/ ts[1].t # "str" \/ ts[2].t # ":" THEN SyntaxError
    ELSE LET v == ParseValue(SubSeq(ts, 3, Len(ts)))
             fields == [k \in DOMAIN acc \cup {ts[1].s} |->
                           IF k = ts[1].s THEN v.value ELSE acc[k]]
         IN IF ~v.ok \/ v.rest = <<>> THEN SyntaxError
            ELSE IF Head(v.rest).t = "}"
                 THEN [ok |-> TRUE, value |-> Obj(fields), rest |-> Tail(v.rest)]
            ELSE IF Head(v.rest).t = ","
                 THEN ParseMembers(Tail(v.rest), fields)
            ELSE SyntaxError

\* JSON.parse(content): a value, or a thrown SyntaxError
JSONParse(text) ==
    LET r == ParseValue(text)
    IN IF r.ok /\ r.rest = <<>> THEN [thrown |-> FALSE, value |-> r.value]
       ELSE [thrown |-> TRUE, value |-> Undefined]

\* what is at a path that holds no regular file: a directory
Directory == [kind |-> "dir", text |-> <<>>]

\* null, where a LocaleFile is expected
NoFile == [locale |-> Undefined, data |-> Undefined, hash |-> Undefined]

\* JSON.parse(content) as LocaleFile: the cast checks nothing, the fields are
\* whatever properties the parsed value has
AsLocaleFile(v) ==
    [locale |-> Get(v, "locale"), data |-> Get(v, "data"), hash |-> Get(v, "hash")]

\* loadLocale on filesystem d: the LocaleFile or null (NoFile), the number of
\* filesystem calls made and whether console.warn was called
loadLocale(d, locale) ==
    LET p == getLocalePath(locale)
        absent == [thrown |-> FALSE, fsOps |-> 1, file |-> NoFile, found |-> FALSE,
                   warned |-> FALSE]
    IN IF p.thrown THEN [absent EXCEPT !.thrown = TRUE, !.fsOps = 0]
       ELSE IF p.path \notin DOMAIN d THEN absent
       ELSE IF d[p.path].kind # "file"
            THEN [absent EXCEPT !.fsOps = 2, !.warned = TRUE]
       ELSE LET parsed == JSONParse(d[p.path].text)
            IN IF parsed.thrown THEN [absent EXCEPT !.fsOps = 2, !.warned = TRUE]
               ELSE [absent EXCEPT !.fsOps = 2, !.file = AsLocaleFile(parsed.value),
                                   !.found = TRUE]

\* saveLocale on filesystem d: the filesystem after it
saveLocale(d, locale, data) ==
    LET p == getLocalePath(locale)
    IN IF p.thrown THEN [thrown |-> TRUE, fsOps |-> 0, disk |-> d]
       ELSE IF p.path \in DOMAIN d /\ d[p.path].kind # "file"
            THEN [thrown |-> TRUE, fsOps |-> 1, disk |-> d]
       ELSE [thrown |-> FALSE, fsOps |-> 1,
             disk |-> [q \in DOMAIN d \cup {p.path} |->
                          IF q = p.path THEN JSONStringify(LocaleFile(locale, data))
                          ELSE d[q]]]

\* deleteLocale on filesystem d: the filesystem after it and the boolean returned
deleteLocale(d, locale) ==
    LET p == getLocalePath(locale)
    IN IF p.thrown THEN [thrown |-> TRUE, fsOps |-> 0, disk |-> d, deleted |-> FALSE]
       ELSE IF p.path \in DOMAIN d /\ d[p.path].kind # "file"
            THEN [thrown |-> TRUE, fsOps |-> 2, disk |-> d, deleted |-> FALSE]
       ELSE IF p.path \in DOMAIN d
            THEN [thrown |-> FALSE, fsOps |-> 2, deleted |-> TRUE,
                  disk |-> [q \in DOMAIN d \ {p.path} |-> d[q]]]
       ELSE [thrown |-> FALSE, fsOps |-> 1, disk |-> d, deleted |-> FALSE]

\* mergeLocaleData on filesystem d
mergeLocaleData(d, locale, newData, preserveExisting) ==
    LET existing == loadLocale(d, locale)
    IN IF existing.thrown THEN [thrown |-> TRUE, fsOps |-> 0, data |-> Undefined]
       ELSE [thrown |-> FALSE, fsOps |-> existing.fsOps,
             data |-> IF ~existing.found THEN newData
                      ELSE IF preserveExisting THEN deepMerge(existing.file.data, newData)
                      ELSE newData]

(***************************************************************************)
(* AITranslator                                                            *)
(*                                                                         *)
(* A dot-notation key is kept as the sequence of its parts, which is what  *)
(* key.split('.') yields: "common.title" is <<"common", "title">>.         *)
(***************************************************************************)
\* the UTF-16 code units of the sample texts (str.charCodeAt)
CharCodes(str) ==
    CASE str = "Hello" -> <<72, 101, 108, 108, 111>>
      [] str = "Hi" -> <<72, 105>>
      [] str = "Hola" -> <<72, 111, 108, 97>>
      [] str = "Welcome" -> <<87, 101, 108, 99, 111, 109, 101>>
      [] str = "Aa" -> <<65, 97>>
      [] str = "BB" -> <<66, 66>>
      [] OTHER -> <<>>

Half == 2 ^ 16

\* hashString: hash = ((hash << 5) - hash) + char; hash = hash & hash, on 32-bit
\* integers (kept as two 16-bit halves while folding); the value is the integer
\* that toString(36) then renders, one string per integer
hashString(str) ==
    LET codes == CharCodes(str)
        RECURSIVE go(_, _, _)
        go(i, hi, lo) ==
            IF i > Len(codes)
            THEN IF hi >= Half \div 2 THEN (hi - Half) * Half + lo ELSE hi * Half + lo
            ELSE LET l == 31 * lo + codes[i]
                 IN go(i + 1, (31 * hi + (l \div Half)) % Half, l % Half)
    IN go(1, 0, 0)

\* the parts of a property name taken as (a piece of) a dot-notation key
SplitDot(name) == IF name = "a.b" THEN <<"a", "b">> ELSE <<name>>

\* the order for...in visits the property names of the sample catalogs in
NameOrder == <<"greeting", "common", "title", "a.b", "a", "b">>

\* flattenKeys(obj, prefix)
RECURSIVE flattenKeys(_, _)
flattenKeys(obj, prefix) ==
    LET RECURSIVE go(_)
        go(i) ==
            IF i > Len(NameOrder) THEN <<>>
            ELSE LET key == NameOrder[i]
                     fullKey == prefix \o SplitDot(key)
                     value == Get(obj, key)
                 IN (IF key \notin DOMAIN obj.f THEN <<>>
                     ELSE IF TypeOf(value) = "string" THEN <<fullKey>>
                     ELSE IF TypeOf(value) = "object" THEN flattenKeys(value, fullKey)
                     ELSE <<>>) \o go(i + 1)
    IN go(1)

\* getValueByKey(obj, key): '' unless the path leads to a string
getValueByKey(obj, key) ==
    LET RECURSIVE go(_, _)
        go(current, i) ==
            IF i > Len(key) THEN (IF TypeOf(current) = "string" THEN current.s ELSE "")
            ELSE IF TypeOf(current) = "object" /\ key[i] \in DOMAIN current.f
                 THEN go(current.f[key[i]], i + 1)
            ELSE ""
    IN go(obj, 1)

\* --- the heap: objects by address, so that two references to one object show
\* a mutation made through either.  A heap value is a string or a reference.
HStr(x) == [t |-> "s", s |-> x, r |-> <<>>]

HRef(a) == [t |-> "r", s |-> "", r |-> a]

\* the paths of the objects of a tree (the root's path is <<>>)
RECURSIVE ObjPaths(_)
ObjPaths(v) ==
    IF v.t = "o"
    THEN {<<>>} \cup UNION {{<<k>> \o p : p \in ObjPaths(v.f[k])} : k \in DOMAIN v.f}
    ELSE {}

\* the heap holding tree v, the object at path p at address base \o p
HeapOf(v, base) ==
    [a \in {base \o p : p \in ObjPaths(v)} |->
        LET p == SubSeq(a, Len(base) + 1, Len(a))
            o == At(v, p)
        IN [k \in DOMAIN o.f |->
               IF o.f[k].t = "s" THEN HStr(o.f[k].s) ELSE HRef(a \o <<k>>)]]

\* the tree a heap value stands for
RECURSIVE ReadHeap(_, _)
ReadHeap(h, hv) ==
    IF hv.t = "s" THEN Str(hv.s)
    ELSE Obj([k \in DOMAIN h[hv.r] |-> ReadHeap(h, h[hv.r][k])])

\* obj[key] = hv on the object at address a
PutField(h, a, key, hv) ==
    [h EXCEPT ![a] = [k \in DOMAIN h[a] \cup {key} |-> IF k = key THEN hv ELSE h[a][k]]]

\* h with a new empty object at address a
NewObject(h, a) == [b \in DOMAIN h \cup {a} |-> IF b = a THEN NoFields ELSE h[b]]

TargetRoot == <<"target">>

CopyRoot == <<"translated">>

\* const translatedData = { ...targetData }: a new object with the same
\* property values, nested objects shared with targetData
SpreadCopy(h, from, to) == [b \in DOMAIN h \cup {to} |-> IF b = to THEN h[from] ELSE h[b]]

\* setValueByKey(obj, key, value) on the object at address root.  A string met
\* on the way is a primitive: 'part in current' and, in a class body (strict
\* mode), 'current[last] = value' throw a TypeError on it.
setValueByKey(h, root, key, value) ==
    LET RECURSIVE go(_, _, _)
        go(hp, current, i) ==
            IF current.t = "s" THEN [thrown |-> TRUE, heap |-> hp]
            ELSE IF i = Len(key)
                 THEN [thrown |-> FALSE, heap |-> PutField(hp, current.r, key[i], HStr(value))]
            ELSE IF key[i] \notin DOMAIN hp[current.r]
                 THEN LET a == <<"new">> \o SubSeq(key, 1, i)
                      IN go(PutField(NewObject(hp, a), current.r, key[i], HRef(a)),
                            HRef(a), i + 1)
            ELSE go(hp, hp[current.r][key[i]], i + 1)
    IN go(h, HRef(root), 1)

\* BuildRequests without the content-hash skip of lines 261-266
BuildRequests_NoHashSkip(hs, sourceData, targetData, sourceLocale, targetLocale) ==
    LET sourceKeys == flattenKeys(sourceData, <<>>)
        Needed(key) ==
            LET sourceValue == getValueByKey(sourceData, key)
                targetValue == getValueByKey(targetData, key)
            IN ~(targetValue # "" /\ targetValue # sourceValue)
        needed == SelectSeq(sourceKeys, Needed)
    IN [i \in 1..Len(needed) |->
           [sourceText |-> getValueByKey(sourceData, needed[i]),
            sourceLocale |-> sourceLocale,
            targetLocale |-> targetLocale,
            context |-> needed[i]]]

\* BuildRequests without the already-translated skip of lines 256-259
BuildRequests_NoTargetSkip(hs, sourceData, targetData, sourceLocale, targetLocale) ==
    LET sourceKeys == flattenKeys(sourceData, <<>>)
        Needed(key) ==
            LET sourceValue == getValueByKey(sourceData, key)
            IN ~(key \in DOMAIN hs /\ hs[key] = hashString(sourceValue))
        needed == SelectSeq(sourceKeys, Needed)
    IN [i \in 1..Len(needed) |->
           [sourceText |-> getValueByKey(sourceData, needed[i]),
            sourceLocale |-> sourceLocale,
            targetLocale |-> targetLocale,
            context |-> needed[i]]]

\* lines 250-274: the requests translateMissingKeys enqueues
BuildRequests(hs, sourceData, targetData, sourceLocale, targetLocale) ==
    LET sourceKeys == flattenKeys(sourceData, <<>>)
        Needed(key) ==
            LET sourceValue == getValueByKey(sourceData, key)
                targetValue == getValueByKey(targetData, key)
            IN /\ ~(targetValue # "" /\ targetValue # sourceValue)
               /\ ~(key \in DOMAIN hs /\ hs[key] = hashString(sourceValue))
        needed == SelectSeq(sourceKeys, Needed)
    IN [i \in 1..Len(needed) |->
           [sourceText |-> getValueByKey(sourceData, needed[i]),
            sourceLocale |-> sourceLocale,
            targetLocale |-> targetLocale,
            context |-> needed[i]]]

\* existingHashes.set(key, hash)
SetHash(hs, key, hash) == [k \in DOMAIN hs \cup {key} |-> IF k = key THEN hash ELSE hs[k]]

\* lines 281-289: the results applied in request order; a throw ends the loop
\* and leaves what was already written.  applied lists the requests whose
\* translation was written and whose hash was recorded.
ApplyResults(h, hs, requests, results) ==
    LET RECURSIVE go(_, _, _, _)
        go(hp, hsp, done, i) ==
            IF i > Len(requests)
            THEN [thrown |-> FALSE, heap |-> hp, hashes |-> hsp, applied |-> done]
            ELSE IF results[i].success /\ requests[i].context # <<"">>
                 THEN LET w == setValueByKey(hp, CopyRoot, requests[i].context,
                                             results[i].translatedText)
                      IN IF w.thrown
                         THEN [thrown |-> TRUE, heap |-> w.heap, hashes |-> hsp,
                               applied |-> done]
                         ELSE go(w.heap,
                                 SetHash(hsp, requests[i].context,
                                         hashString(requests[i].sourceText)),
                                 Append(done, i), i + 1)
            ELSE go(hp, hsp, done, i + 1)
    IN go(h, hs, <<>>, 1)

\* translateMissingKeys, the provider answering results to the one batch (no
\* batch call is made for no requests): what it returns or that it threw, its
\* argument object targetData after the call, and existingHashes after it
translateMissingKeys(hs, sourceData, targetData, sourceLocale, targetLocale, results) ==
    LET h0 == SpreadCopy(HeapOf(targetData, TargetRoot), TargetRoot, CopyRoot)
        requests == BuildRequests(hs, sourceData, targetData, sourceLocale, targetLocale)
        a == IF Len(requests) > 0 THEN ApplyResults(h0, hs, requests, results)
             ELSE [thrown |-> FALSE, heap |-> h0, hashes |-> hs, applied |-> <<>>]
    IN [requests |-> requests,
        applied |-> a.applied,
        batches |-> IF Len(requests) > 0 THEN 1 ELSE 0,
        thrown |-> a.thrown,
        returned |-> IF a.thrown THEN Undefined ELSE ReadHeap(a.heap, HRef(CopyRoot)),
        targetAfter |-> ReadHeap(a.heap, HRef(TargetRoot)),
        hashes |-> a.hashes]

\* what a provider may answer to one request: a failure, a translation, or the
\* source text back (a proper noun)
ProviderAnswers(request) ==
    {[success |-> FALSE, translatedText |-> ""],
     [success |-> TRUE, translatedText |-> "Hola"],
     [success |-> TRUE, translatedText |-> request.sourceText]}

\* provider.translateBatch(requests): one answer per request, in request order
BatchAnswers(requests) ==
    {rs \in [1..Len(requests) -> UNION {ProviderAnswers(requests[i]) : i \in 1..Len(requests)}] :
        \A i \in 1..Len(requests) : rs[i] \in ProviderAnswers(requests[i])}

(***************************************************************************)
(* ASTWrapper                                                              *)
(***************************************************************************)
\* new ASTWrapper(): functionName 't', componentName 'T', no exclusion
\* patterns, no key prefix
DefaultWrapper ==
    [functionName |-> <<"t">>, componentName |-> <<"T">>, excludePatterns |-> <<>>,
     lastIndex |-> <<>>, keyPrefix |-> <<>>]

\* --- texts, as sequences of characters
LowerCase == <<"a", "b", "c", "d", "e", "f", "g", "h", "i", "j", "k", "l", "m",
               "n", "o", "p", "q", "r", "s", "t", "u", "v", "w", "x", "y", "z">>

UpperCase == <<"A", "B", "C", "D", "E", "F", "G", "H", "I", "J", "K", "L", "M",
               "N", "O", "P", "Q", "R", "S", "T", "U", "V", "W", "X", "Y", "Z">>

\* [a-zA-Z], [0-9] and \s
Letter(c) == \E i \in 1..26 : c = LowerCase[i] \/ c = UpperCase[i]

Digit(c) == c \in {"0", "1", "2", "3", "4", "5", "6", "7", "8", "9"}

Space(c) == c \in {" ", "\n", "\t"}

\* text.trim()
Trim(text) ==
    LET inner == {i \in 1..Len(text) : ~Space(text[i])}
    IN IF inner = {} THEN <<>>
       ELSE SubSeq(text, CHOOSE i \in inner : \A j \in inner : i <= j,
                         CHOOSE i \in inner : \A j \in inner : i >= j)

\* text.toLowerCase()
ToLowerCase(text) ==
    [i \in 1..Len(text) |->
        IF \E k \in 1..26 : UpperCase[k] = text[i]
        THEN LowerCase[CHOOSE k \in 1..26 : UpperCase[k] = text[i]]
        ELSE text[i]]

\* str.endsWith(suffix)
EndsWith(str, suffix) ==
    /\ Len(suffix) <= Len(str)
    /\ SubSeq(str, Len(str) - Len(suffix) + 1, Len(str)) = suffix

\* path.extname(name): from the last '.', unless the name starts with it
ExtName(name) ==
    LET dots == {i \in 2..Len(name) : name[i] = "."}
    IN IF dots = {} THEN <<>>
       ELSE SubSeq(name, CHOOSE i \in dots : \A j \in dots : i >= j, Len(name))

\* path.basename(filePath, path.extname(filePath)); a path is the sequence of
\* its segments
BaseName(filePath) ==
    LET name == filePath[Len(filePath)]
    IN SubSeq(name, 1, Len(name) - Len(ExtName(name)))

\* generateKey without the .trim() of line 54
generateKey_NoTrim(w, text, filePath) ==
    LET kept == SelectSeq(ToLowerCase(text),
                          LAMBDA c : (\E i \in 1..26 : c = LowerCase[i])
                                     \/ Digit(c) \/ Space(c))
        RECURSIVE underscored(_)
        underscored(i) ==
            IF i > Len(kept) THEN <<>>
            ELSE IF ~Space(kept[i]) THEN <<kept[i]>> \o underscored(i + 1)
            ELSE IF i > 1 /\ Space(kept[i - 1]) THEN underscored(i + 1)
            ELSE <<"_">> \o underscored(i + 1)
    IN (IF w.keyPrefix # <<>> THEN w.keyPrefix \o <<"_">> ELSE <<>>)
       \o BaseName(filePath) \o <<"_">> \o underscored(1)

\* generateKey(text, filePath)
generateKey(w, text, filePath) ==
    LET lower == ToLowerCase(text)
        \* .replace(/[^a-z0-9\s]/g, '')
        kept == SelectSeq(lower, LAMBDA c : (\E i \in 1..26 : c = LowerCase[i])
                                            \/ Digit(c) \/ Space(c))
        trimmed == Trim(kept)
        \* .replace(/\s+/g, '_'): one underscore for each run of whitespace
        RECURSIVE underscored(_)
        underscored(i) ==
            IF i > Len(trimmed) THEN <<>>
            ELSE IF ~Space(trimmed[i]) THEN <<trimmed[i]>> \o underscored(i + 1)
            ELSE IF i > 1 /\ Space(trimmed[i - 1]) THEN underscored(i + 1)
            ELSE <<"_">> \o underscored(i + 1)
        prefix == IF w.keyPrefix # <<>> THEN w.keyPrefix \o <<"_">> ELSE <<>>
    IN prefix \o BaseName(filePath) \o <<"_">> \o underscored(1)

\* pattern.test(text) for a pattern that searches a literal: the boolean and
\* the pattern's lastIndex after the call.  Without the g and y flags the
\* search starts at 0 and lastIndex stays; with one of them it starts at
\* lastIndex (y: matches only there), a match moves lastIndex to its end and a
\* failure resets it to 0.
RegExpTest(pattern, lastIndex, text) ==
    LET n == Len(pattern.source)
        from == IF pattern.global \/ pattern.sticky THEN lastIndex ELSE 0
        starts == {i \in from..(Len(text) - n) :
                      /\ SubSeq(text, i + 1, i + n) = pattern.source
                      /\ pattern.sticky => i = from}
        first == CHOOSE i \in starts : \A j \in starts : i <= j
    IN IF ~(pattern.global \/ pattern.sticky)
       THEN [result |-> starts # {}, lastIndex |-> lastIndex]
       ELSE IF starts = {} THEN [result |-> FALSE, lastIndex |-> 0]
       ELSE [result |-> TRUE, lastIndex |-> first + n]

\* lines 70-88: the fixed rules of shouldExclude
ExcludedByRule(text) ==
    LET t == Trim(text)
        word(c) == Letter(c) \/ Digit(c) \/ c = "_"
    IN \/ t = <<>>
       \/ Len(t) < 2
       \/ /\ Letter(t[1]) \/ t[1] \in {"_", "$"}
          /\ \A i \in 2..Len(t) : word(t[i]) \/ t[i] = "$"
       \/ StartsWith(t, <<"h", "t", "t", "p", ":", "/", "/">>)
       \/ StartsWith(t, <<"h", "t", "t", "p", "s", ":", "/", "/">>)
       \/ t[1] \in {"/", "\\"}
       \/ Len(t) >= 3 /\ Letter(t[1]) /\ t[2] = ":" /\ t[3] = "\\"
       \/ /\ t[1] = "." /\ Letter(t[2])
          /\ \A i \in 3..Len(t) : word(t[i]) \/ t[i] = "-"
       \/ t[1] \in {"{", "}", "[", "]", "(", ")", ";"}

\* shouldExclude(text) on a wrapper whose patterns have the given lastIndex
\* values: the boolean, and the lastIndex values after the call
shouldExclude(w, lastIndex, text) ==
    LET RECURSIVE patterns(_, _)
        patterns(i, li) ==
            IF i > Len(w.excludePatterns) THEN [excluded |-> FALSE, lastIndex |-> li]
            ELSE LET r == RegExpTest(w.excludePatterns[i], li[i], text)
                     li2 == [li EXCEPT ![i] = r.lastIndex]
                 IN IF r.result THEN [excluded |-> TRUE, lastIndex |-> li2]
                    ELSE patterns(i + 1, li2)
    IN IF ExcludedByRule(text) THEN [excluded |-> TRUE, lastIndex |-> lastIndex]
       ELSE patterns(1, lastIndex)

\* --- source text: the lines of a file, each line as the tokens read from it.
\* A line is an import (of names, from a module), a directive ('use client'),
\* a comment line (//, or the opening, a middle or the closing line of a /* */
\* block), a blank line, one JSX element (tag, at most one attribute, at most
\* one child), another statement ("code"), or text that cannot be parsed
\* ("broken").  An attribute value or a child is absent ("none"), a literal,
\* or in braces a call fn('text') ("call"), a call fn(name) of a variable
\* ("callvar") or a variable {name} ("expr").  A statement fn('text'); is a
\* "code" line with the call as its value.
Part(form, fn, text) == [form |-> form, fn |-> fn, text |-> text]

NoPart == Part("none", <<>>, <<>>)

Line(kind, names, from) ==
    [kind |-> kind, names |-> names, from |-> from, tag |-> <<>>, attr |-> <<>>,
     value |-> NoPart, child |-> NoPart]

Jsx(tag, attr, value, child) ==
    [kind |-> "jsx", names |-> <<>>, from |-> <<>>, tag |-> tag, attr |-> attr,
     value |-> value, child |-> child]

\* parser.parse(content, {errorRecovery: true, ...}): the statements and
\* comments with the line each starts on, or a throw for text the parser
\* cannot recover from; blank lines are no part of the tree
parse(content) ==
    LET RECURSIVE nodes(_)
        nodes(i) ==
            IF i > Len(content) THEN <<>>
            ELSE (IF content[i].kind = "blank" THEN <<>>
                  ELSE <<[line |-> i, node |-> content[i]]>>) \o nodes(i + 1)
    IN IF \E i \in 1..Len(content) : content[i].kind = "broken"
       THEN [thrown |-> TRUE, ast |-> <<>>]
       ELSE [thrown |-> FALSE, ast |-> nodes(1)]

\* generate(ast).code: one line per statement or comment; where the original
\* had blank lines between two of them, the generator prints one blank line or
\* none, depending on its version (keepBlank)
generate(ast, keepBlank) ==
    LET RECURSIVE lines(_)
        lines(i) ==
            IF i > Len(ast) THEN <<>>
            ELSE (IF keepBlank /\ i > 1 /\ ast[i].line > ast[i - 1].line + 1
                  THEN <<Line("blank", <<>>, <<>>)>> ELSE <<>>)
                 \o <<ast[i].node>> \o lines(i + 1)
    IN lines(1)

\* line 275
svgAttributes ==
    {<<"w", "i", "d", "t", "h">>, <<"h", "e", "i", "g", "h", "t">>,
     <<"v", "i", "e", "w", "B", "o", "x">>, <<"d">>, <<"f", "i", "l", "l">>,
     <<"s", "t", "r", "o", "k", "e">>,
     <<"s", "t", "r", "o", "k", "e", "W", "i", "d", "t", "h">>,
     <<"s", "t", "r", "o", "k", "e", "-", "w", "i", "d", "t", "h">>, <<"x">>, <<"y">>,
     <<"c", "x">>, <<"c", "y">>, <<"r", "x">>, <<"r", "y">>, <<"x", "1">>,
     <<"y", "1">>, <<"x", "2">>, <<"y", "2">>, <<"p", "o", "i", "n", "t", "s">>,
     <<"t", "r", "a", "n", "s", "f", "o", "r", "m">>,
     <<"p", "r", "e", "s", "e", "r", "v", "e", "A", "s", "p", "e", "c", "t", "R", "a", "t", "i", "o">>,
     <<"b", "o", "r", "d", "e", "r", "R", "a", "d", "i", "u", "s">>,
     <<"b", "o", "r", "d", "e", "r", "-", "r", "a", "d", "i", "u", "s">>}

\* line 277
techAttributes ==
    {<<"c", "l", "a", "s", "s", "N", "a", "m", "e">>, <<"i", "d">>, <<"s", "r", "c">>,
     <<"h", "r", "e", "f">>, <<"t", "a", "r", "g", "e", "t">>, <<"r", "e", "l">>,
     <<"a", "l", "t">>, <<"r", "o", "l", "e">>,
     <<"a", "r", "i", "a", "-", "l", "a", "b", "e", "l">>,
     <<"a", "r", "i", "a", "-", "d", "e", "s", "c", "r", "i", "b", "e", "d", "b", "y">>}

\* line 283
techValues ==
    {<<"n", "o", "o", "p", "e", "n", "e", "r">>,
     <<"n", "o", "r", "e", "f", "e", "r", "r", "e", "r">>,
     <<"_", "b", "l", "a", "n", "k">>, <<"s", "e", "l", "f">>,
     <<"p", "a", "r", "e", "n", "t">>, <<"t", "o", "p">>}

\* wrapContent(content, filePath): the visitors run over the tree in source
\* order, an element's attribute before its child; st carries wrapped, the
\* tree, modified, the patterns' lastIndex and processedLocations
wrapContent(w, lastIndex, content, filePath, keepBlank) ==
    LET parsed == parse(content)
        \* lines 256-315
        JSXAttribute(st, i) ==
            LET node == st.ast[i].node
                text == node.value.text
                locationKey == <<"attr", st.ast[i].line, 1>>
                normalizedText == Trim(ToLowerCase(text))
                x == shouldExclude(w, st.lastIndex, text)
                key == generateKey(w, text, filePath)
                seen == [st EXCEPT !.processed = @ \cup {locationKey}]
            IN IF node.attr = <<>> \/ node.value.form # "literal" THEN st
               ELSE IF locationKey \in st.processed THEN st
               ELSE IF node.attr \in svgAttributes \cup techAttributes THEN seen
               ELSE IF \E v \in techValues : Includes(normalizedText, v) THEN seen
               ELSE IF x.excluded THEN [seen EXCEPT !.lastIndex = x.lastIndex]
               ELSE [seen EXCEPT
                        !.lastIndex = x.lastIndex,
                        !.wrapped = Append(@, [original |-> text, key |-> key,
                                               wrapped |-> [braces |-> FALSE,
                                                            fn |-> w.functionName,
                                                            key |-> key],
                                               line |-> st.ast[i].line]),
                        !.ast[i].node.value = Part("call", w.functionName, key),
                        !.modified = TRUE]
        \* lines 212-253; the parent of a JSXText is an element or a fragment,
        \* never a call or an expression container (line 230)
        JSXText(st, i) ==
            LET node == st.ast[i].node
                text == Trim(node.child.text)
                locationKey == <<"", st.ast[i].line, 2>>
                x == shouldExclude(w, st.lastIndex, text)
                key == generateKey(w, text, filePath)
                seen == [st EXCEPT !.processed = @ \cup {locationKey}]
            IN IF node.child.form # "literal" THEN st
               ELSE IF locationKey \in st.processed THEN st
               ELSE IF x.excluded THEN [seen EXCEPT !.lastIndex = x.lastIndex]
               ELSE [seen EXCEPT
                        !.lastIndex = x.lastIndex,
                        !.wrapped = Append(@, [original |-> text, key |-> key,
                                               wrapped |-> [braces |-> TRUE,
                                                            fn |-> w.functionName,
                                                            key |-> key],
                                               line |-> st.ast[i].line]),
                        !.ast[i].node.child = Part("call", w.functionName, key),
                        !.modified = TRUE]
        RECURSIVE traverse(_, _)
        traverse(st, i) ==
            IF i > Len(st.ast) THEN st
            ELSE IF st.ast[i].node.kind # "jsx" THEN traverse(st, i + 1)
            ELSE Once(JSXAttribute(st, i),
                      LAMBDA a : Once(JSXText(a, i), LAMBDA b : traverse(b, i + 1)))
        start == [wrapped |-> <<>>, ast |-> parsed.ast, modified |-> FALSE,
                  lastIndex |-> lastIndex, processed |-> {}]
    IN IF parsed.thrown
       THEN [file |-> filePath, wrapped |-> <<>>, modified |-> FALSE,
             errors |-> <<[error |-> "AST wrapping error", file |-> filePath]>>,
             modifiedContent |-> <<>>, lastIndex |-> lastIndex]
       ELSE Once(Once(start, LAMBDA st : traverse(st, 1)), LAMBDA done :
                [file |-> filePath, wrapped |-> done.wrapped,
                 modified |-> done.modified, errors |-> <<>>,
                 modifiedContent |-> IF done.modified THEN generate(done.ast, keepBlank)
                                     ELSE <<>>,
                 lastIndex |-> done.lastIndex])

\* importRegex.test(content), lines 105-106: some line reads as an import of
\* importName alone; a comment line that holds such an import reads so too
ImportRegexTest(w, content) ==
    \E i \in 1..Len(content) :
        /\ content[i].kind \in {"import", "lineComment"}
        /\ content[i].names = <<w.functionName>>

\* addImportStatement(content, filePath)
addImportStatement(w, content, filePath) ==
    LET name == ToLowerCase(filePath[Len(filePath)])
        importSource ==
            IF EndsWith(name, <<".", "j", "s">>) \/ EndsWith(name, <<".", "j", "s", "x">>)
            THEN <<"l", "o", "k", "a", "l", "-", "c", "o", "r", "e">>
            ELSE <<"r", "e", "a", "c", "t">>
        \* lines 121-136, i counting from 0 as the loop does
        RECURSIVE insertIndex(_)
        insertIndex(i) ==
            IF i >= Len(content) THEN 0
            ELSE IF content[i + 1].kind \in {"import", "lineComment", "blockOpen", "blank"}
                 THEN IF content[i + 1].kind = "blank" /\ i > 0
                         /\ content[i].kind = "import"
                      THEN i + 1
                      ELSE insertIndex(i + 1)
            ELSE i
        at == insertIndex(0)
    IN IF ImportRegexTest(w, content) THEN content
       ELSE SubSeq(content, 1, at)
            \o <<Line("import", <<w.functionName>>, importSource),
                 Line("blank", <<>>, <<>>)>>
            \o SubSeq(content, at + 1, Len(content))

\* a regular file: its lines, and what the process may do with it ("rw",
\* "ro": writing throws, "none": reading throws too)
File(text, mode) == [kind |-> "file", text |-> text, mode |-> mode]

\* wrapFile without the try/catch of lines 154-173: a file that cannot be read
\* raises
wrapFile_NoCatch(w, lastIndex, d, filePath, keepBlank) ==
    [thrown |-> ~(filePath \in DOMAIN d /\ d[filePath].kind = "file"
                    /\ d[filePath].mode # "none"),
     file |-> filePath, wrapped |-> <<>>, errors |-> <<>>, modified |-> FALSE,
     disk |-> d, lastIndex |-> lastIndex]

\* wrapFile(filePath) on filesystem d: the WrapResult, the filesystem and the
\* patterns' lastIndex after it; thrown says whether the call raises, which
\* the try/catch around its whole body excludes
wrapFile(w, lastIndex, d, filePath, keepBlank) ==
    LET failed == [error |-> "Failed to process", file |-> filePath]
        readable == filePath \in DOMAIN d /\ d[filePath].kind = "file"
                        /\ d[filePath].mode # "none"
        \* lines 163-170
        written(result) ==
            LET output == addImportStatement(w, result.modifiedContent, filePath)
                writes == result.modified /\ result.modifiedContent # <<>>
            IN [thrown |-> FALSE, file |-> filePath, wrapped |-> result.wrapped,
                modified |-> result.modified,
                errors |-> IF writes /\ d[filePath].mode = "ro"
                           THEN Append(result.errors, failed) ELSE result.errors,
                disk |-> IF writes /\ d[filePath].mode = "rw"
                         THEN [d EXCEPT ![filePath].text = output] ELSE d,
                lastIndex |-> result.lastIndex]
    IN IF ~readable
       THEN [thrown |-> FALSE, file |-> filePath, wrapped |-> <<>>,
             errors |-> <<failed>>, modified |-> FALSE, disk |-> d,
             lastIndex |-> lastIndex]
       ELSE Once(wrapContent(w, lastIndex, d[filePath].text, filePath, keepBlank), written)

\* no call: the record of a call holds its arguments and its outcome
IdleWrap ==
    [op |-> "idle", text |-> <<>>, excluded |-> FALSE, file |-> <<>>, input |-> <<>>,
     rerun |-> FALSE, wrapped |-> <<>>, errors |-> <<>>, modified |-> FALSE,
     output |-> <<>>, wrote |-> FALSE, dryRun |-> FALSE, outputDir |-> <<>>,
     results |-> <<>>, modifiedFiles |-> 0, strings |-> <<>>, files |-> <<>>,
     thrown |-> FALSE, key |-> <<>>, diskBefore |-> NoFields, parser |-> Undefined]

\* no wrapper call is under way or has been made
WrapIdle ==
    /\ wrapper = DefaultWrapper
    /\ wrap = IdleWrap
    /\ answers = NoFields
    /\ rewritten = {}

(***************************************************************************)
(* The locale store as a state machine: calls on one FileStorage           *)
(***************************************************************************)
IdleRet ==
    [op |-> "idle", locale |-> <<>>, newData |-> Undefined, preserve |-> FALSE,
     found |-> FALSE, existing |-> Undefined, thrown |-> FALSE, fsOps |-> 0,
     data |-> Undefined, file |-> NoFile, warned |-> FALSE]

IdleCall ==
    [op |-> "idle", n |-> 0, fromResult |-> FALSE, source |-> Undefined,
     targetBefore |-> Undefined, targetAfter |-> Undefined, hashesBefore |-> NoFields,
     lastOkBefore |-> NoFields, requests |-> <<>>, results |-> <<>>, applied |-> <<>>,
     batches |-> 0, thrown |-> FALSE, returned |-> Undefined]

IdleCli ==
    [pc |-> "idle", all |-> FALSE, targets |-> <<>>, sourceData |-> Undefined,
     before |-> NoFields, failedAnswers |-> FALSE]

\* no provider call made, no write under way, no LokalProvider mounted
IdleFetch ==
    [op |-> "idle", apiKey |-> <<>>, model |-> <<>>, request |-> Undefined,
     url |-> <<>>, method |-> "", headers |-> NoFields, body |-> Undefined,
     result |-> Undefined]

IdleWriter ==
    [pc |-> "idle", locale |-> <<>>, path |-> <<>>, content |-> <<>>, written |-> 0,
     before |-> NoFields]

IdleReact ==
    [pc |-> "idle", ssrInitialLocale |-> <<>>, navigator |-> <<>>,
     storage |-> [rejects |-> FALSE, locale |-> <<>>,
                  translations |-> [kind |-> "null", value |-> NoFields]],
     locale |-> <<>>, translations |-> EmptyObj, isLoading |-> FALSE,
     pending |-> {}, started |-> 0, selects |-> 0, failed |-> FALSE, warned |-> FALSE]

ProcIdle ==
    /\ fetched = IdleFetch
    /\ writer = IdleWriter
    /\ react = IdleReact

\* storage.saveLocale(locale, data)
CallSaveLocale(locale, data) ==
    /\ ret.op = "idle"
    /\ LET r == saveLocale(disk, locale, data)
       IN /\ disk' = r.disk
          /\ ret' = [IdleRet EXCEPT !.op = "save", !.locale = locale, !.newData = data,
                                    !.thrown = r.thrown, !.fsOps = r.fsOps]
          /\ saved' = IF r.thrown THEN saved
                      ELSE [l \in DOMAIN saved \cup {locale} |->
                               IF l = locale THEN data ELSE saved[l]]
    /\ UNCHANGED <<syncVars, cli, wrapVars, procVars>>

\* storage.loadLocale(locale)
CallLoadLocale(locale) ==
    /\ ret.op = "idle"
    /\ LET r == loadLocale(disk, locale)
       IN ret' = [IdleRet EXCEPT !.op = "load", !.locale = locale, !.thrown = r.thrown,
                                 !.fsOps = r.fsOps, !.found = r.found, !.file = r.file,
                                 !.warned = r.warned]
    /\ UNCHANGED <<disk, saved, syncVars, cli, wrapVars, procVars>>

\* storage.mergeLocaleData(locale, newData, preserveExisting)
CallMergeLocaleData(locale, newData, preserveExisting) ==
    /\ ret.op = "idle"
    /\ LET e == loadLocale(disk, locale)
           r == mergeLocaleData(disk, locale, newData, preserveExisting)
       IN ret' = [IdleRet EXCEPT !.op = "merge", !.locale = locale, !.newData = newData,
                                 !.preserve = preserveExisting, !.found = e.found,
                                 !.existing = e.file.data, !.thrown = r.thrown,
                                 !.fsOps = r.fsOps, !.data = r.data]
    /\ UNCHANGED <<disk, saved, syncVars, cli, wrapVars, procVars>>

\* storage.deleteLocale(locale)
CallDeleteLocale(locale) ==
    /\ ret.op = "idle"
    /\ LET r == deleteLocale(disk, locale)
       IN /\ disk' = r.disk
          /\ ret' = [IdleRet EXCEPT !.op = "delete", !.locale = locale,
                                    !.thrown = r.thrown, !.fsOps = r.fsOps,
                                    !.found = r.deleted]
          /\ saved' = IF r.thrown THEN saved
                      ELSE [l \in DOMAIN saved \ {locale} |-> saved[l]]
    /\ UNCHANGED <<syncVars, cli, wrapVars, procVars>>

\* the caller takes the outcome of the call
Return ==
    /\ ret.op # "idle"
    /\ ret' = IdleRet
    /\ UNCHANGED <<disk, saved, syncVars, cli, wrapVars, procVars>>

\* --- inputs of the store specification
MergeTexts == {"Hello", "Hi"}

InnerNames == {"greeting", "constructor"}

OuterNames == {"common", "__proto__"}

InnerObjs == ObjsOver(InnerNames, {Str(x) : x \in MergeTexts})

\* catalogs two levels deep, attacker-shaped ones included
StoreCatalogs == ObjsOver(OuterNames, {Str(x) : x \in MergeTexts} \cup InnerObjs)

En == <<"e", "n">>

StoreInit ==
    /\ disk = NoFields
    /\ ret = IdleRet
    /\ hashes = NoFields
    /\ src = Undefined
    /\ tgt = Undefined
    /\ call = IdleCall
    /\ lastOk = NoFields
    /\ cli = IdleCli
    /\ ProcIdle
    /\ saved = NoFields
    /\ WrapIdle

StoreNext ==
    \/ \E data \in StoreCatalogs : CallSaveLocale(En, data)
    \/ CallLoadLocale(En)
    \/ \E newData \in StoreCatalogs, p \in BOOLEAN : CallMergeLocaleData(En, newData, p)
    \/ Return

SpecStore == StoreInit /\ [][StoreNext]_vars

\* --- inputs of the path specification
PathChars == {"/", ".", "r", "x"}

MaxIdLen == 3

MaxFiles == 2

LocaleIds == UNION {[1..n -> PathChars] : n \in 0..MaxIdLen}

PathData == Obj([test |-> Str("fail")])

PathNext ==
    \/ \E id \in LocaleIds :
          /\ Cardinality(DOMAIN disk) < MaxFiles
          /\ CallSaveLocale(id, PathData)
    \/ \E id \in LocaleIds : CallLoadLocale(id)
    \/ Return

SpecPath == StoreInit /\ [][PathNext]_vars

\* the directory a resolved locale path lies in is the storage root or below it
InsideRoot(locale) ==
    LET root == ResolveSegments(BasePath, <<>>)
        segs == ResolveSegments(BasePath, locale \o JsonExt)
    IN /\ Len(segs) > Len(root)
       /\ SubSeq(segs, 1, Len(root)) = root

(***************************************************************************)
(* The sync engine as a state machine: one AITranslator, one caller        *)
(***************************************************************************)
MaxCalls == 2

SourceTexts == {"Hello", "Hi"}

SyncSources ==
    ObjsOver({"greeting", "common"}, {Str("Hello"), Obj([title |-> Str("Hello")])})

SyncTargets ==
    ObjsOver({"greeting", "common"},
             {Str("Hola"), Str(""), EmptyObj, Obj([title |-> Str("Hola")])})

\* v with the value at path p replaced by x
RECURSIVE SetAt(_, _, _)
SetAt(v, p, x) ==
    IF p = <<>> THEN x
    ELSE Obj([k \in DOMAIN v.f |-> IF k = Head(p) THEN SetAt(v.f[k], Tail(p), x) ELSE v.f[k]])

\* history: the source text of the last applied translation of each key
Remember(lo, requests, applied) ==
    LET keys == {requests[applied[j]].context : j \in 1..Len(applied)}
        Last(k) == CHOOSE j \in 1..Len(applied) :
                      /\ requests[applied[j]].context = k
                      /\ \A j2 \in 1..Len(applied) :
                            requests[applied[j2]].context = k => j2 <= j
    IN [k \in DOMAIN lo \cup keys |->
           IF k \in keys THEN requests[applied[Last(k)]].sourceText ELSE lo[k]]

\* translator.translateMissingKeys(src, tgt, 'en', 'es'); tgt is the caller's
\* object, so what the call does to its argument the caller sees
CallTranslateMissingKeys ==
    /\ call.op = "idle"
    /\ call.n < MaxCalls
    /\ \E results \in BatchAnswers(BuildRequests(hashes, src, tgt, "en", "es")) :
          LET r == translateMissingKeys(hashes, src, tgt, "en", "es", results)
          IN /\ call' = [op |-> "translate", n |-> call.n + 1,
                         fromResult |-> call.fromResult, source |-> src,
                         targetBefore |-> tgt, targetAfter |-> r.targetAfter,
                         hashesBefore |-> hashes, lastOkBefore |-> lastOk,
                         requests |-> r.requests, results |-> results,
                         applied |-> r.applied, batches |-> r.batches,
                         thrown |-> r.thrown, returned |-> r.returned]
             /\ hashes' = r.hashes
             /\ tgt' = r.targetAfter
             /\ lastOk' = Remember(lastOk, r.requests, r.applied)
    /\ UNCHANGED <<src, storeVars, cli, wrapVars, procVars>>

\* the caller passes the returned catalog as the next target
AdoptResult ==
    /\ call.op = "translate"
    /\ ~call.thrown
    /\ tgt' = call.returned
    /\ call' = [IdleCall EXCEPT !.n = call.n, !.fromResult = TRUE]
    /\ UNCHANGED <<hashes, src, lastOk, storeVars, cli, wrapVars, procVars>>

\* the caller keeps its own target object
KeepTarget ==
    /\ call.op = "translate"
    /\ call' = [IdleCall EXCEPT !.n = call.n, !.fromResult = FALSE]
    /\ UNCHANGED <<hashes, src, tgt, lastOk, storeVars, cli, wrapVars, procVars>>

\* the caller starts over from an empty target catalog
FreshTarget ==
    /\ call.op = "idle"
    /\ tgt # EmptyObj
    /\ tgt' = EmptyObj
    /\ call' = [call EXCEPT !.fromResult = FALSE]
    /\ UNCHANGED <<hashes, src, lastOk, storeVars, cli, wrapVars, procVars>>

\* the source text of one key changes (sourceData.greeting = 'Hi')
EditSource(p, text) ==
    /\ call.op = "idle"
    /\ p \in LeafPaths(src)
    /\ At(src, p) # Str(text)
    /\ src' = SetAt(src, p, Str(text))
    /\ UNCHANGED <<hashes, tgt, call, lastOk, storeVars, cli, wrapVars, procVars>>

SyncInit ==
    /\ disk = NoFields
    /\ ret = IdleRet
    /\ hashes = NoFields
    /\ src \in SyncSources
    /\ tgt \in SyncTargets
    /\ call = IdleCall
    /\ lastOk = NoFields
    /\ cli = IdleCli
    /\ ProcIdle
    /\ saved = NoFields
    /\ WrapIdle

SyncNext ==
    \/ CallTranslateMissingKeys
    \/ AdoptResult
    \/ KeepTarget
    \/ FreshTarget
    \/ \E p \in LeafPaths(src), text \in SourceTexts : EditSource(p, text)

SpecSync == SyncInit /\ [][SyncNext]_vars

(***************************************************************************)
(* lokal translate: translateCommand as a process                          *)
(***************************************************************************)
Es == <<"e", "s">>

Fr == <<"f", "r">>

\* config.locales and config.defaultLocale of the sample lokal.config.js
ConfigLocales == <<En, Fr, Es>>

DefaultLocale == En

\* availableLocales.filter(l => l !== config.defaultLocale)
NonDefaultLocales == SelectSeq(ConfigLocales, LAMBDA l : l # DefaultLocale)

\* lines 72-83: the target locales for the command's options
TargetLocales(options) ==
    IF options.all THEN NonDefaultLocales
    ELSE IF options.locale # <<>> THEN <<options.locale>>
    ELSE SubSeq(NonDefaultLocales, 1, 1)

CliOptions ==
    {[all |-> TRUE, locale |-> <<>>], [all |-> FALSE, locale |-> <<>>],
     [all |-> FALSE, locale |-> Es], [all |-> FALSE, locale |-> Fr]}

CliSources ==
    {Obj([greeting |-> Str("Hello")]),
     Obj([greeting |-> Str("Hello"), common |-> Obj([title |-> Str("Welcome")])])}

CliTargets ==
    {Undefined, EmptyObj, Obj([greeting |-> Str("Hola")]),
     Obj([common |-> Obj([title |-> Str("Hola")])])}

\* a locales directory left by earlier runs: a catalog saved for each locale
\* that has one
DiskWith(en, fr, es) ==
    LET d1 == IF en = Undefined THEN NoFields ELSE saveLocale(NoFields, En, en).disk
        d2 == IF fr = Undefined THEN d1 ELSE saveLocale(d1, Fr, fr).disk
    IN IF es = Undefined THEN d2 ELSE saveLocale(d2, Es, es).disk

\* the catalog a locale has on disk, {} when it has no file (line 105)
CatalogOf(d, locale) ==
    LET f == loadLocale(d, locale) IN IF f.found THEN f.file.data ELSE EmptyObj

\* lines 63-97: a new translator and storage, the target locales, the source
\* catalog; the command ends at once with no target locale or no source file
CliStart(options) ==
    /\ cli.pc = "start"
    /\ LET targetLocales == TargetLocales(options)
           sourceData == loadLocale(disk, DefaultLocale)
       IN cli' = [cli EXCEPT
                     !.all = options.all,
                     !.targets = targetLocales,
                     !.sourceData = sourceData.file.data,
                     !.pc = IF Len(targetLocales) = 0 THEN "done"
                            ELSE IF ~sourceData.found THEN "exit1"
                            ELSE "loop"]
    /\ hashes' = NoFields
    /\ UNCHANGED <<disk, ret, src, tgt, call, lastOk, saved, wrapVars, procVars>>

\* lines 100-118: one round of the loop: load the target catalog, translate
\* the missing keys with the command's one translator, save the result; a
\* throw is caught at line 135 and ends the process
CliTranslateLocale ==
    /\ cli.pc = "loop"
    /\ Len(cli.targets) > 0
    /\ LET targetLocale == Head(cli.targets)
           targetData == CatalogOf(disk, targetLocale)
       IN \E results \in BatchAnswers(BuildRequests(hashes, cli.sourceData, targetData,
                                                    DefaultLocale, targetLocale)) :
             LET r == translateMissingKeys(hashes, cli.sourceData, targetData,
                                           DefaultLocale, targetLocale, results)
                 failed == \E i \in 1..Len(results) : ~results[i].success
             IN /\ hashes' = r.hashes
                /\ IF r.thrown
                   THEN /\ disk' = disk
                        /\ cli' = [cli EXCEPT !.pc = "exit1",
                                              !.failedAnswers = @ \/ failed]
                   ELSE /\ disk' = saveLocale(disk, targetLocale, r.returned).disk
                        /\ cli' = [cli EXCEPT !.targets = Tail(@),
                                              !.failedAnswers = @ \/ failed]
    /\ UNCHANGED <<ret, src, tgt, call, lastOk, saved, wrapVars, procVars>>

\* line 132: the loop is over
CliFinish ==
    /\ cli.pc = "loop"
    /\ Len(cli.targets) = 0
    /\ cli' = [cli EXCEPT !.pc = "done"]
    /\ UNCHANGED <<disk, ret, hashes, src, tgt, call, lastOk, saved, wrapVars, procVars>>

CliInit ==
    /\ \E en \in CliSources \cup {Undefined}, fr \in CliTargets, es \in CliTargets :
          /\ disk = DiskWith(en, fr, es)
          /\ cli = [IdleCli EXCEPT
                       !.pc = "start",
                       !.before = [l \in {Fr, Es} |-> IF l = Fr THEN fr ELSE es]]
    /\ ret = IdleRet
    /\ hashes = NoFields
    /\ src = Undefined
    /\ tgt = Undefined
    /\ call = IdleCall
    /\ lastOk = NoFields
    /\ saved = NoFields
    /\ WrapIdle
    /\ ProcIdle

CliNext ==
    \/ \E options \in CliOptions : CliStart(options)
    \/ CliTranslateLocale
    \/ CliFinish

SpecCli == CliInit /\ [][CliNext]_vars

(***************************************************************************)
(* The rewriter as a state machine: one ASTWrapper, calls on single files  *)
(***************************************************************************)
\* wrapper.shouldExclude(text)
CallShouldExclude(text) ==
    /\ LET r == shouldExclude(wrapper, wrapper.lastIndex, text)
       IN /\ wrapper' = [wrapper EXCEPT !.lastIndex = r.lastIndex]
          /\ wrap' = [IdleWrap EXCEPT !.op = "shouldExclude", !.text = text,
                                      !.excluded = r.excluded]
          /\ answers' = [x \in DOMAIN answers \cup {text} |->
                            IF x \in DOMAIN answers /\ x # text THEN answers[x]
                            ELSE IF x \in DOMAIN answers
                                 THEN answers[x] \cup {r.excluded}
                            ELSE {r.excluded}]
    /\ UNCHANGED <<disk, rewritten, storeVars, syncVars, cli, procVars>>

\* wrapper.wrapContent(content, filePath); rerun says that content is what
\* the previous wrapContent call returned as modifiedContent
WrapContentCall(content, filePath, keepBlank, rerun) ==
    /\ \E r \in {wrapContent(wrapper, wrapper.lastIndex, content, filePath, keepBlank)} :
          /\ wrapper' = [wrapper EXCEPT !.lastIndex = r.lastIndex]
          /\ wrap' = [IdleWrap EXCEPT !.op = "wrapContent", !.file = filePath,
                                      !.input = content, !.rerun = rerun,
                                      !.wrapped = r.wrapped, !.errors = r.errors,
                                      !.modified = r.modified,
                                      !.output = r.modifiedContent]
    /\ UNCHANGED <<disk, answers, rewritten, storeVars, syncVars, cli, procVars>>

\* wrapper.wrapFile(filePath); rerun says that the file holds what an earlier
\* wrapFile of this wrapper wrote
CallWrapFile(filePath, keepBlank) ==
    /\ \E r \in {wrapFile(wrapper, wrapper.lastIndex, disk, filePath, keepBlank)} :
          /\ wrapper' = [wrapper EXCEPT !.lastIndex = r.lastIndex]
          /\ disk' = r.disk
          /\ wrap' = [IdleWrap EXCEPT !.op = "wrapFile", !.file = filePath,
                                      !.input = disk[filePath].text,
                                      !.rerun = filePath \in rewritten,
                                      !.wrapped = r.wrapped, !.errors = r.errors,
                                      !.modified = r.modified,
                                      !.output = r.disk[filePath].text,
                                      !.wrote = r.disk # disk]
          /\ rewritten' = IF r.disk # disk THEN rewritten \cup {filePath} ELSE rewritten
    /\ UNCHANGED <<answers, ret, saved, syncVars, cli, procVars>>

\* --- inputs of the rewriter specification
HelloWorld == <<"H", "e", "l", "l", "o", " ", "W", "o", "r", "l", "d">>

Save == <<"S", "a", "v", "e">>

SaveChanges == <<"S", "a", "v", "e", " ", "c", "h", "a", "n", "g", "e", "s">>

\* what a file starts with: nothing, an import, the directive and import of
\* test-app's page.tsx, imports a blank line apart, a licence comment, an
\* import of t next to another name, a commented-out import of t, an import
\* of t
Headers ==
    LET React == Line("import", <<<<"R", "e", "a", "c", "t">>>>, <<"r", "e", "a", "c", "t">>)
        Link == Line("import", <<<<"L", "i", "n", "k">>>>, <<"n", "e", "x", "t">>)
        lokal == <<"l", "o", "k", "a", "l">>
    IN {<<>>,
        <<React>>,
        <<Line("directive", <<>>, <<>>), Line("blank", <<>>, <<>>), Link>>,
        <<React, Line("blank", <<>>, <<>>), Link>>,
        <<Line("blockOpen", <<>>, <<>>), Line("blockMid", <<>>, <<>>),
          Line("blockClose", <<>>, <<>>), React>>,
        <<Line("import", <<<<"t">>, <<"T">>>>, lokal)>>,
        <<Line("lineComment", <<<<"t">>>>, lokal), React>>,
        <<Line("import", <<<<"t">>>>, lokal)>>}

\* the elements of the sample files
JsxLines ==
    LET lit(x) == Part("literal", <<>>, x)
        div == <<"d", "i", "v">>
    IN {Jsx(div, <<>>, NoPart, lit(<<" ">> \o HelloWorld \o <<"\n">>)),
        Jsx(<<"T">>, <<>>, NoPart, lit(HelloWorld)),
        Jsx(div, <<"t", "i", "t", "l", "e">>, lit(Save), lit(SaveChanges)),
        Jsx(div, <<"t", "i", "t", "l", "e">>, lit(SaveChanges), NoPart),
        Jsx(div, <<"c", "l", "a", "s", "s", "N", "a", "m", "e">>, lit(<<"c", "o", "n", "t", "a", "i", "n", "e", "r">>), lit(Save)),
        Jsx(div, <<"c", "l", "a", "s", "s">>, lit(<<"b", "t", "n", " ", "p", "r", "i", "m", "a", "r", "y">>), NoPart),
        Jsx(<<"c", "i", "r", "c", "l", "e">>, <<"r">>, lit(<<"1", "0">>), NoPart),
        Jsx(<<"a">>, <<"t", "a", "r", "g", "e", "t">>, lit(<<"_", "b", "l", "a", "n", "k">>), lit(SaveChanges)),
        Jsx(div, <<"a", "r", "i", "a", "-", "v", "a", "l", "u", "e", "t", "e", "x", "t">>, lit(<<"S", "t", "e", "p", " ", "2">>), NoPart),
        Jsx(div, <<"d", "i", "s", "a", "b", "l", "e", "d">>, NoPart, NoPart)}

MaxElements == 2

\* the sample files: a header, up to MaxElements elements, an export
SourceFiles ==
    {h \o b \o <<Line("code", <<>>, <<>>)>> :
        h \in Headers, b \in UNION {[1..n -> JsxLines] : n \in 1..MaxElements}}

\* the exclusion patterns of the sample configurations: none, or /World/ with
\* no flag, g, y or gy
PatternConfigs ==
    {<<>>} \cup {<<[source |-> <<"W", "o", "r", "l", "d">>, global |-> g, sticky |-> y]>> :
                    g \in BOOLEAN, y \in BOOLEAN}

AppTsx == <<<<"s", "r", "c">>, <<"A", "p", "p", ".", "t", "s", "x">>>>

\* a wrapper constructed with one of the sample configurations, no call made
WrapperInit ==
    /\ \E ps \in PatternConfigs :
          wrapper = [DefaultWrapper EXCEPT !.excludePatterns = ps,
                                           !.lastIndex = [i \in 1..Len(ps) |-> 0]]
    /\ wrap = IdleWrap
    /\ answers = NoFields
    /\ rewritten = {}
    /\ ret = IdleRet
    /\ saved = NoFields
    /\ hashes = NoFields
    /\ src = Undefined
    /\ tgt = Undefined
    /\ call = IdleCall
    /\ lastOk = NoFields
    /\ cli = IdleCli
    /\ ProcIdle

WrapInit ==
    /\ \E content \in SourceFiles : disk = [f \in {AppTsx} |-> File(content, "rw")]
    /\ WrapperInit

WrapNext ==
    \/ \E keepBlank \in BOOLEAN :
          WrapContentCall(disk[AppTsx].text, AppTsx, keepBlank, FALSE)
    \/ \E keepBlank \in BOOLEAN :
          /\ wrap.op = "wrapContent" /\ wrap.modified
          /\ WrapContentCall(wrap.output, wrap.file, keepBlank, TRUE)
    \/ \E keepBlank \in BOOLEAN : CallWrapFile(AppTsx, keepBlank)

SpecWrap == WrapInit /\ [][WrapNext]_vars

\* the exclusion filter alone: calls of shouldExclude on one wrapper
FilterTexts == {HelloWorld, Save, SaveChanges, <<"W", "o", "r", "l", "d", "s">>}

FilterNext == \E text \in FilterTexts : CallShouldExclude(text)

FilterInit == disk = NoFields /\ WrapperInit

SpecFilter == FilterInit /\ [][FilterNext]_vars

(***************************************************************************)
(* The directory walks: ASTWrapper.wrapDirectory and the scanner           *)
(* (ASTParser) on one source tree                                          *)
(***************************************************************************)
\* new ASTParser({}): functionName 't', componentName 'T'
DefaultParser == [functionName |-> <<"t">>, componentName |-> <<"T">>]

\* new ASTParser(options): an option left out, or empty, takes its default
ASTParser(options) ==
    [functionName |-> IF options.functionName = <<>> THEN DefaultParser.functionName
                      ELSE options.functionName,
     componentName |-> IF options.componentName = <<>> THEN DefaultParser.componentName
                       ELSE options.componentName]

\* parseContent without the isJSXText test on the child of the element
parseContent_AnyChild(p, content, filePath) ==
    LET parsed == parse(content)
        ExtractedString(text, line) ==
            [key |-> text, value |-> text, file |-> filePath, line |-> line]
        \* the CallExpression visitor
        CallExpression(part, line) ==
            IF part.form \in {"call", "callvar"} /\ part.fn = p.functionName
            THEN IF part.form = "call"
                 THEN <<ExtractedString(part.text, line)>> ELSE <<>>
            ELSE <<>>
        \* the JSXElement visitor
        JSXElement(n) ==
            IF /\ n.node.kind = "jsx"
               /\ n.node.tag = p.componentName
               /\ Trim(n.node.child.text) # <<>>
            THEN <<ExtractedString(Trim(n.node.child.text), n.line)>> ELSE <<>>
        RECURSIVE traverse(_)
        traverse(i) ==
            IF i > Len(parsed.ast) THEN <<>>
            ELSE JSXElement(parsed.ast[i])
                 \o CallExpression(parsed.ast[i].node.value, parsed.ast[i].line)
                 \o CallExpression(parsed.ast[i].node.child, parsed.ast[i].line)
                 \o traverse(i + 1)
    IN IF parsed.thrown
       THEN [strings |-> <<>>,
             errors |-> <<[error |-> "AST parsing error", file |-> filePath]>>]
       ELSE [strings |-> traverse(1), errors |-> <<>>]

\* parseContent(content, filePath): the t('...') calls and the <T>text</T>
\* elements of the content, or the error of a parse that throws
parseContent(p, content, filePath) ==
    LET parsed == parse(content)
        ExtractedString(text, line) ==
            [key |-> text, value |-> text, file |-> filePath, line |-> line]
        \* the CallExpression visitor
        CallExpression(part, line) ==
            IF part.form \in {"call", "callvar"} /\ part.fn = p.functionName
            THEN IF part.form = "call"
                 THEN <<ExtractedString(part.text, line)>> ELSE <<>>
            ELSE <<>>
        \* the JSXElement visitor
        JSXElement(n) ==
            IF /\ n.node.kind = "jsx"
               /\ n.node.tag = p.componentName
               /\ n.node.child.form = "literal"
               /\ Trim(n.node.child.text) # <<>>
            THEN <<ExtractedString(Trim(n.node.child.text), n.line)>> ELSE <<>>
        RECURSIVE traverse(_)
        traverse(i) ==
            IF i > Len(parsed.ast) THEN <<>>
            ELSE JSXElement(parsed.ast[i])
                 \o CallExpression(parsed.ast[i].node.value, parsed.ast[i].line)
                 \o CallExpression(parsed.ast[i].node.child, parsed.ast[i].line)
                 \o traverse(i + 1)
    IN IF parsed.thrown
       THEN [strings |-> <<>>,
             errors |-> <<[error |-> "AST parsing error", file |-> filePath]>>]
       ELSE [strings |-> traverse(1), errors |-> <<>>]

\* parseFile(filePath) on filesystem d; thrown says whether the call raises,
\* which the try/catch around its whole body excludes
parseFile(p, d, filePath) ==
    IF filePath \in DOMAIN d /\ d[filePath].kind = "file" /\ d[filePath].mode # "none"
    THEN Once(parseContent(p, d[filePath].text, filePath), LAMBDA result :
            [thrown |-> FALSE, strings |-> result.strings, errors |-> result.errors])
    ELSE [thrown |-> FALSE, strings |-> <<>>,
          errors |-> <<[error |-> "Failed to parse", file |-> filePath]>>]

\* a directory, and whether the process may list it ("rw") or not ("none")
Dir(mode) == [kind |-> "dir", text |-> <<>>, mode |-> mode]

\* the entry names of the sample trees, in the order readdirSync lists them
EntryNames ==
    <<<<".", "c", "a", "c", "h", "e">>, <<"A", "p", "p", ".", "t", "s", "x">>, <<"i", "1", "8", "n">>, <<"l", "i", "b">>, <<"l", "o", "c", "a", "l", "e", "s">>, <<"n", "o", "d", "e", "_", "m", "o", "d", "u", "l", "e", "s">>, <<"n", "o", "t", "e", "s", ".", "m", "d">>, <<"U", "t", "i", "l", ".", "t", "s", "x">>>>

\* fs.readdirSync(currentPath, {withFileTypes: true}): the entries' names, or
\* a throw when currentPath is no directory the process may list
readdirSync(d, currentPath) ==
    IF currentPath \in DOMAIN d /\ d[currentPath].kind = "dir"
       /\ d[currentPath].mode # "none"
    THEN [thrown |-> FALSE,
          entries |-> SelectSeq(EntryNames,
                                LAMBDA n : Append(currentPath, n) \in DOMAIN d)]
    ELSE [thrown |-> TRUE, entries |-> <<>>]

\* the default of the extensions parameter of both walks
DefaultExtensions == {<<".", "j", "s">>, <<".", "j", "s", "x">>, <<".", "t", "s">>, <<".", "t", "s", "x">>}

\* wrapDirectory(dirPath, extensions, dryRun) on filesystem d: the results, the
\* count of modified files, the filesystem and the patterns' lastIndex after
\* it.  A throw of readdirSync or of wrapFile ends the walk and is the throw
\* of wrapDirectory.
wrapDirectory(w, lastIndex, d, dirPath, extensions, dryRun, keepBlank) ==
    LET RECURSIVE wrapRecursive(_, _)
        wrapRecursive(st, currentPath) ==
            LET listed == readdirSync(st.disk, currentPath)
                entry(s, name) ==
                    LET fullPath == Append(currentPath, name)
                        added(result) ==
                            [thrown |-> result.thrown,
                             results |-> IF result.thrown THEN s.results
                                         ELSE Append(s.results,
                                                 [file |-> result.file,
                                                  wrapped |-> result.wrapped,
                                                  errors |-> result.errors,
                                                  modified |-> result.modified]),
                             modifiedFiles |-> IF result.modified
                                               THEN s.modifiedFiles + 1
                                               ELSE s.modifiedFiles,
                             disk |-> result.disk, lastIndex |-> result.lastIndex]
                    IN \* lines 350-357
                       IF name = <<"n", "o", "d", "e", "_", "m", "o", "d", "u", "l", "e", "s">> \/ StartsWith(name, <<".">>) THEN s
                       ELSE IF name = <<"l", "o", "c", "a", "l", "e", "s">> \/ name = <<".", "l", "o", "k", "a", "l">> THEN s
                       ELSE IF s.disk[fullPath].kind = "dir"
                       THEN wrapRecursive(s, fullPath)
                       ELSE IF ExtName(name) \in extensions
                       THEN Once(wrapFile(w, s.lastIndex, s.disk, fullPath, keepBlank),
                                 added)
                       ELSE s
                RECURSIVE each(_, _)
                each(s, i) ==
                    IF s.thrown \/ i > Len(listed.entries) THEN s
                    ELSE Once(entry(s, listed.entries[i]), LAMBDA n : each(n, i + 1))
            IN IF listed.thrown THEN [st EXCEPT !.thrown = TRUE] ELSE each(st, 1)
    IN wrapRecursive([thrown |-> FALSE, results |-> <<>>, modifiedFiles |-> 0,
                      disk |-> d, lastIndex |-> lastIndex], dirPath)

\* scanDirectory(dirPath, extensions) on filesystem d: the ScanResult; files
\* lists the paths parseFile was called with, in the order of the calls
scanDirectory(p, d, dirPath, extensions) ==
    LET RECURSIVE scanRecursive(_, _)
        scanRecursive(st, currentPath) ==
            LET listed == readdirSync(d, currentPath)
                entry(s, name) ==
                    LET fullPath == Append(currentPath, name)
                        added(result) ==
                            [thrown |-> result.thrown,
                             strings |-> s.strings \o result.strings,
                             errors |-> s.errors \o result.errors,
                             files |-> Append(s.files, fullPath)]
                    IN IF name = <<"n", "o", "d", "e", "_", "m", "o", "d", "u", "l", "e", "s">> \/ StartsWith(name, <<".">>) THEN s
                       ELSE IF d[fullPath].kind = "dir"
                       THEN scanRecursive(s, fullPath)
                       ELSE IF ExtName(name) \in extensions
                       THEN Once(parseFile(p, d, fullPath), added)
                       ELSE s
                RECURSIVE each(_, _)
                each(s, i) ==
                    IF s.thrown \/ i > Len(listed.entries) THEN s
                    ELSE Once(entry(s, listed.entries[i]), LAMBDA n : each(n, i + 1))
            IN IF listed.thrown THEN [st EXCEPT !.thrown = TRUE] ELSE each(st, 1)
    IN scanRecursive([thrown |-> FALSE, strings |-> <<>>, errors |-> <<>>,
                      files |-> <<>>], dirPath)

\* wrapper.wrapDirectory(dirPath, extensions, dryRun)
CallWrapDirectory(dirPath, dryRun, keepBlank) ==
    /\ \E r \in {wrapDirectory(wrapper, wrapper.lastIndex, disk, dirPath,
                               DefaultExtensions, dryRun, keepBlank)} :
          /\ wrapper' = [wrapper EXCEPT !.lastIndex = r.lastIndex]
          /\ disk' = r.disk
          /\ wrap' = [IdleWrap EXCEPT !.op = "wrapDirectory", !.file = dirPath,
                                      !.dryRun = dryRun, !.thrown = r.thrown,
                                      !.outputDir = wrap.outputDir,
                                      !.results = r.results,
                                      !.modifiedFiles = r.modifiedFiles,
                                      !.diskBefore = disk]
          /\ rewritten' = rewritten \cup {f \in DOMAIN disk : r.disk[f] # disk[f]}
    /\ UNCHANGED <<answers, ret, saved, syncVars, cli, procVars>>

\* new ASTParser({}).scanDirectory(dirPath)
CallScanDirectory(dirPath) ==
    /\ \E r \in {scanDirectory(DefaultParser, disk, dirPath, DefaultExtensions)} :
          wrap' = [IdleWrap EXCEPT !.op = "scanDirectory", !.file = dirPath,
                                   !.thrown = r.thrown,
                                   !.outputDir = wrap.outputDir,
                                   !.strings = r.strings, !.errors = r.errors,
                                   !.files = r.files, !.diskBefore = disk]
    /\ UNCHANGED <<wrapper, answers, rewritten, disk, ret, saved, syncVars,
                 cli, procVars>>

\* --- inputs of the walk specification
SrcDir == <<<<"s", "r", "c">>>>

LibDir == <<<<"s", "r", "c">>, <<"l", "i", "b">>>>

\* the contents of the sample trees' source files: a text to wrap in an
\* attribute, a text to wrap in an element, and a text the parser rejects
TitleFile ==
    <<Jsx(<<"d", "i", "v">>, <<"t", "i", "t", "l", "e">>,
          Part("literal", <<>>, SaveChanges), NoPart)>>

TextFile ==
    <<Jsx(<<"d", "i", "v">>, <<>>, NoPart, Part("literal", <<>>, HelloWorld))>>

BrokenFile == <<Line("broken", <<>>, <<>>)>>

\* the sample trees: src with App.tsx, notes.md, lib/Util.tsx and a source
\* file in each of .cache, node_modules, locales and i18n
SourceTrees ==
    {[f \in {SrcDir, <<<<"s", "r", "c">>, <<"A", "p", "p", ".", "t", "s", "x">>>>, <<<<"s", "r", "c">>, <<"n", "o", "t", "e", "s", ".", "m", "d">>>>, LibDir, <<<<"s", "r", "c">>, <<"l", "i", "b">>, <<"U", "t", "i", "l", ".", "t", "s", "x">>>>,
             <<<<"s", "r", "c">>, <<".", "c", "a", "c", "h", "e">>>>, <<<<"s", "r", "c">>, <<".", "c", "a", "c", "h", "e">>, <<"U", "t", "i", "l", ".", "t", "s", "x">>>>,
             <<<<"s", "r", "c">>, <<"n", "o", "d", "e", "_", "m", "o", "d", "u", "l", "e", "s">>>>, <<<<"s", "r", "c">>, <<"n", "o", "d", "e", "_", "m", "o", "d", "u", "l", "e", "s">>, <<"U", "t", "i", "l", ".", "t", "s", "x">>>>,
             <<<<"s", "r", "c">>, <<"l", "o", "c", "a", "l", "e", "s">>>>, <<<<"s", "r", "c">>, <<"l", "o", "c", "a", "l", "e", "s">>, <<"U", "t", "i", "l", ".", "t", "s", "x">>>>,
             <<<<"s", "r", "c">>, <<"i", "1", "8", "n">>>>, <<<<"s", "r", "c">>, <<"i", "1", "8", "n">>, <<"U", "t", "i", "l", ".", "t", "s", "x">>>>} |->
        IF f = <<<<"s", "r", "c">>, <<"A", "p", "p", ".", "t", "s", "x">>>> THEN File(app, appMode)
        ELSE IF f = LibDir THEN Dir(libMode)
        ELSE IF f = <<<<"s", "r", "c">>, <<"l", "i", "b">>, <<"U", "t", "i", "l", ".", "t", "s", "x">>>> THEN File(util, "rw")
        ELSE IF f = <<<<"s", "r", "c">>, <<"n", "o", "t", "e", "s", ".", "m", "d">>>> THEN File(TitleFile, "rw")
        ELSE IF Len(f) = 3 THEN File(TextFile, "rw")
        ELSE Dir("rw")] :
        app \in {TitleFile, BrokenFile}, appMode \in {"rw", "ro", "none"},
        libMode \in {"rw", "none"}, util \in {TextFile, TitleFile}}

\* the catalog-output directory of the sample configurations
OutputDirs == {<<<<"s", "r", "c">>, <<"l", "o", "c", "a", "l", "e", "s">>>>, <<<<"s", "r", "c">>, <<"i", "1", "8", "n">>>>}

WalkInit ==
    /\ disk \in SourceTrees
    /\ \E ps \in {<<>>, <<[source |-> <<"W", "o", "r", "l", "d">>, global |-> TRUE,
                          sticky |-> FALSE]>>} :
          wrapper = [DefaultWrapper EXCEPT !.excludePatterns = ps,
                                           !.lastIndex = [i \in 1..Len(ps) |-> 0]]
    /\ \E o \in OutputDirs : wrap = [IdleWrap EXCEPT !.outputDir = o]
    /\ answers = NoFields
    /\ rewritten = {}
    /\ ret = IdleRet
    /\ saved = NoFields
    /\ hashes = NoFields
    /\ src = Undefined
    /\ tgt = Undefined
    /\ call = IdleCall
    /\ lastOk = NoFields
    /\ cli = IdleCli
    /\ ProcIdle

WalkNext ==
    \/ \E dirPath \in {SrcDir, LibDir}, dryRun \in BOOLEAN, keepBlank \in BOOLEAN :
          CallWrapDirectory(dirPath, dryRun, keepBlank)
    \/ \E dirPath \in {SrcDir, LibDir} : CallScanDirectory(dirPath)

SpecWalk == WalkInit /\ [][WalkNext]_vars

(***************************************************************************)
(* Key generation alone: calls of generateKey on one wrapper               *)
(***************************************************************************)
\* wrapper.generateKey(text, filePath); answers keeps, for each text and file
\* base name, the keys returned so far
CallGenerateKey(text, filePath) ==
    /\ \E key \in {generateKey(wrapper, text, filePath)} :
          /\ wrap' = [IdleWrap EXCEPT !.op = "generateKey", !.text = text,
                                      !.file = filePath, !.key = key]
          /\ answers' = [x \in DOMAIN answers \cup {<<text, BaseName(filePath)>>} |->
                            IF x = <<text, BaseName(filePath)>>
                            THEN (IF x \in DOMAIN answers THEN answers[x] ELSE {})
                                 \cup {key}
                            ELSE answers[x]]
    /\ UNCHANGED <<wrapper, disk, rewritten, ret, saved, syncVars, cli, procVars>>

\* --- inputs of the key specification
KeyTexts ==
    {<<"S", "a", "v", "e", " ", "c", "h", "a", "n", "g", "e", "s">>, <<"S", "a", "v", "e", " ", "c", "h", "a", "n", "g", "e", "s", "!">>, <<" ", " ", "H", "e", "l", "l", "o", ",", " ", " ", " ", "W", "o", "r", "l", "d", " ">>, <<"H", "e", "l", "l", "o", "\n", "W", "o", "r", "l", "d">>,
     <<"S", "A", "V", "E">>, <<"x", "2", "-", "y">>, <<"!", "?">>, <<"5", "0", "%", " ", "o", "f", "f">>}

KeyFiles ==
    {<<<<"s", "r", "c">>, <<"A", "p", "p", ".", "t", "s", "x">>>>, <<<<"s", "r", "c">>, <<"l", "i", "b">>, <<"A", "p", "p", ".", "t", "s", "x">>>>,
     <<<<"s", "r", "c">>, <<"A", "p", "p", ".", "t", "e", "s", "t", ".", "t", "s", "x">>>>, <<<<"M", "a", "k", "e", "f", "i", "l", "e">>>>}

KeyPrefixes == {<<>>, <<"a", "p", "p">>}

MaxKeyCalls == 2

KeyInit ==
    /\ \E prefix \in KeyPrefixes : wrapper = [DefaultWrapper EXCEPT !.keyPrefix = prefix]
    /\ wrap = IdleWrap
    /\ answers = NoFields
    /\ rewritten = {}
    /\ disk = NoFields
    /\ ret = IdleRet
    /\ saved = NoFields
    /\ hashes = NoFields
    /\ src = Undefined
    /\ tgt = Undefined
    /\ call = IdleCall
    /\ lastOk = NoFields
    /\ cli = IdleCli
    /\ ProcIdle

KeyNext ==
    \E text \in KeyTexts, filePath \in KeyFiles :
        /\ \/ Cardinality(DOMAIN answers) < MaxKeyCalls
           \/ <<text, BaseName(filePath)>> \in DOMAIN answers
        /\ CallGenerateKey(text, filePath)

SpecKey == KeyInit /\ [][KeyNext]_vars

(***************************************************************************)
(* One wrap pass over files of translatable and technical literals         *)
(***************************************************************************)
\* the elements of the sample files of a pass
PassLines ==
    LET lit(x) == Part("literal", <<>>, x)
        div == <<"d", "i", "v">>
        title == <<"t", "i", "t", "l", "e">>
    IN {Jsx(div, title, lit(SaveChanges), NoPart),
        Jsx(div, <<>>, NoPart, lit(<<"S", "a", "v", "e", " ", "c", "h", "a", "n", "g", "e", "s", "!">>)),
        Jsx(<<"b", "u", "t", "t", "o", "n">>, title, lit(<<"S", "t", "o", "p", " ", "r", "e", "c", "o", "r", "d", "i", "n", "g">>), NoPart),
        Jsx(<<"i", "m", "g">>, <<"a", "l", "t">>, lit(<<"A", " ", "r", "e", "d", " ", "c", "a", "r">>), NoPart),
        Jsx(div, <<>>, NoPart, lit(<<" ">> \o HelloWorld \o <<"\n">>)),
        Jsx(div, title, lit(Save), lit(HelloWorld)),
        Jsx(<<"a">>, <<"t", "a", "r", "g", "e", "t">>, lit(<<"_", "b", "l", "a", "n", "k">>), lit(SaveChanges)),
        Jsx(div, <<"c", "l", "a", "s", "s", "N", "a", "m", "e">>, lit(<<"c", "o", "n", "t", "a", "i", "n", "e", "r">>), NoPart)}

\* the sample files of a pass: up to MaxElements elements and an export
PassFiles ==
    {b \o <<Line("code", <<>>, <<>>)>> :
        b \in UNION {[1..n -> PassLines] : n \in 1..MaxElements}}

PassInit ==
    /\ \E content \in PassFiles : disk = [f \in {AppTsx} |-> File(content, "rw")]
    /\ WrapperInit
    /\ wrapper.excludePatterns = <<>>

SpecPass == PassInit /\ [][WrapNext]_vars

(***************************************************************************)
(* GeminiProvider: the request one translate call sends                    *)
(***************************************************************************)
\* new GeminiProvider(apiKey, model), lines 127-131
GeminiProvider(apiKey, model) ==
    [apiKey |-> apiKey, model |-> model,
     baseUrl |-> <<"h", "t", "t", "p", "s", ":", "/", "/", "g", "e", "n", "e", "r", "a", "t", "i", "v", "e", "l", "a", "n", "g", "u", "a", "g", "e", ".", "g", "o", "o", "g", "l", "e", "a", "p", "i", "s", ".", "c", "o", "m", "/", "v", "1", "/", "m", "o", "d", "e", "l", "s", "/">>
                 \o model \o <<":", "g", "e", "n", "e", "r", "a", "t", "e", "C", "o", "n", "t", "e", "n", "t">>]

\* buildPrompt(request), lines 197-205
buildPrompt(request) ==
    "Translate the following text from " \o request.sourceLocale \o " to "
        \o request.targetLocale \o ":\n\n\"" \o request.sourceText \o "\""
        \o (IF request.context # "" THEN "\n\nContext: " \o request.context ELSE "")

\* translate(request) when fetch answers with response: the arguments of the
\* fetch call and the TranslationResult
GeminiTranslate(provider, request, response) ==
    LET url == provider.baseUrl \o <<"?", "k", "e", "y", "=">> \o provider.apiKey
        headers == [h \in {"Content-Type"} |-> <<"a", "p", "p", "l", "i", "c", "a", "t", "i", "o", "n", "/", "j", "s", "o", "n">>]
        body == [contents |-> <<[parts |-> <<[text |-> buildPrompt(request)]>>]>>,
                 generationConfig |-> [temperature |-> "0.3", maxOutputTokens |-> "2048"]]
        translatedText == IF response.kind = "json" /\ response.ok
                          THEN Trim(response.text) ELSE <<>>
        failed(error) == [translatedText |-> <<>>, sourceText |-> request.sourceText,
                          success |-> FALSE, error |-> error]
    IN [url |-> url, method |-> "POST", headers |-> headers, body |-> body,
        result |-> IF response.kind = "rejected" THEN failed("fetch failed")
                   ELSE IF ~response.ok THEN failed("Gemini API error")
                   ELSE IF translatedText = <<>> THEN failed("No translation returned")
                   ELSE [translatedText |-> translatedText,
                         sourceText |-> request.sourceText, success |-> TRUE,
                         error |-> ""]]

\* provider.translate(request) on the provider of this behaviour
CallGeminiTranslate(request, response) ==
    /\ \E r \in {GeminiTranslate(GeminiProvider(fetched.apiKey, fetched.model),
                                 request, response)} :
          fetched' = [fetched EXCEPT !.op = "translate", !.request = request,
                                     !.url = r.url, !.method = r.method,
                                     !.headers = r.headers, !.body = r.body,
                                     !.result = r.result]
    /\ UNCHANGED <<storeVars, syncVars, cli, wrapVars, writer, react>>

\* --- inputs of the provider specification
ApiKeys == {<<"s", "e", "c", "u", "r", "e", "-", "a", "p", "i", "-", "k", "e", "y">>, <<"A", "I", "z", "a", "9">>, <<"k">>}

GeminiModels == {<<"g", "e", "m", "i", "n", "i", "-", "2", ".", "5", "-", "f", "l", "a", "s", "h">>, <<"g", "e", "m", "i", "n", "i", "-", "p", "r", "o">>}

GeminiRequests ==
    {[sourceText |-> t, sourceLocale |-> "en", targetLocale |-> l, context |-> c] :
        t \in {"Hello", "Save changes", ""}, l \in {"es", "fr"},
        c \in {"", "common.greeting"}}

\* what fetch can answer: a rejection, a status that is not ok, a body with
\* no candidate text, a blank text, a text
GeminiResponses ==
    {[kind |-> "rejected", ok |-> FALSE, text |-> <<>>],
     [kind |-> "json", ok |-> FALSE, text |-> <<>>],
     [kind |-> "json", ok |-> TRUE, text |-> <<>>],
     [kind |-> "json", ok |-> TRUE, text |-> <<" ", " ">>],
     [kind |-> "json", ok |-> TRUE, text |-> <<" ", "H", "o", "l", "a", " ", "\n">>]}

GeminiInit ==
    /\ \E apiKey \in ApiKeys, model \in GeminiModels :
          fetched = [IdleFetch EXCEPT !.apiKey = apiKey, !.model = model]
    /\ writer = IdleWriter
    /\ react = IdleReact
    /\ disk = NoFields
    /\ ret = IdleRet
    /\ saved = NoFields
    /\ hashes = NoFields
    /\ src = Undefined
    /\ tgt = Undefined
    /\ call = IdleCall
    /\ lastOk = NoFields
    /\ cli = IdleCli
    /\ WrapIdle

GeminiNext ==
    \E request \in GeminiRequests, response \in GeminiResponses :
        CallGeminiTranslate(request, response)

SpecGemini == GeminiInit /\ [][GeminiNext]_vars

(***************************************************************************)
(* The sync engine on catalogs with a '.' in a property name               *)
(***************************************************************************)
\* source catalogs: the property 'a.b', next to other properties or alone,
\* and the nested a.b
DotSources ==
    {Obj([k \in {"a.b"} |-> Str("Hello")]),
     Obj([k \in {"a.b", "greeting"} |-> Str("Hello")]),
     Obj([a |-> Obj([b |-> Str("Hello")])]),
     Obj([k \in {"a.b", "a"} |->
            IF k = "a" THEN Obj([b |-> Str("Hi")]) ELSE Str("Hello")])}

DotTargets == {EmptyObj, Obj([a |-> Obj([b |-> Str("Hola")])])}

DotInit ==
    /\ src \in DotSources
    /\ tgt \in DotTargets
    /\ disk = NoFields
    /\ ret = IdleRet
    /\ hashes = NoFields
    /\ call = IdleCall
    /\ lastOk = NoFields
    /\ cli = IdleCli
    /\ ProcIdle
    /\ saved = NoFields
    /\ WrapIdle

SpecDot == DotInit /\ [][SyncNext]_vars


(***************************************************************************)
(* The scanner on one content: parseContent on the shapes it recognises    *)
(* and on the ones next to them                                            *)
(***************************************************************************)
\* parser.parseContent(content, filePath)
CallParseContent(filePath) ==
    /\ wrap.op = "idle"
    /\ \E r \in {parseContent(wrap.parser, wrap.input, filePath)} :
          wrap' = [wrap EXCEPT !.op = "parseContent", !.file = filePath,
                               !.strings = r.strings, !.errors = r.errors]
    /\ UNCHANGED <<wrapper, answers, rewritten, disk, ret, saved, syncVars,
                 cli, procVars>>

ParserOptions ==
    {[functionName |-> <<>>, componentName |-> <<>>],
     [functionName |-> <<"t", "r">>, componentName |-> <<>>],
     [functionName |-> <<>>, componentName |-> <<"T", "r", "a", "n", "s">>]}

\* <p>{t('Hello World')}</p>, <p>{t(greeting)}</p>, <T>Save</T>, <T>{name}</T>,
\* <T>   </T>, <T></T>, <div title="Save">Hello World</div>,
\* <p>{tr('Save changes')}</p>, <Trans> Save changes </Trans>,
\* <T title={t('Save')}>Hello World</T>, t('Save'); <T>{t('Save')}</T>,
\* <p>{tr(greeting)}</p>, <Trans>{name}</Trans>, a statement without a call,
\* and text that is no program
ParseLines ==
    LET lit(x) == Part("literal", <<>>, x)
        P == <<"p">>
        T == <<"T">>
    IN {Jsx(P, <<>>, NoPart, Part("call", <<"t">>, HelloWorld)),
        Jsx(P, <<>>, NoPart, Part("callvar", <<"t">>, <<"g", "r", "e", "e", "t", "i", "n", "g">>)),
        Jsx(T, <<>>, NoPart, lit(Save)),
        Jsx(T, <<>>, NoPart, Part("expr", <<>>, <<"n", "a", "m", "e">>)),
        Jsx(T, <<>>, NoPart, lit(<<" ", "\n", " ">>)),
        Jsx(T, <<>>, NoPart, NoPart),
        Jsx(<<"d", "i", "v">>, <<"t", "i", "t", "l", "e">>, lit(Save), lit(HelloWorld)),
        Jsx(P, <<>>, NoPart, Part("call", <<"t", "r">>, SaveChanges)),
        Jsx(<<"T", "r", "a", "n", "s">>, <<>>, NoPart, lit(<<" ">> \o SaveChanges \o <<" ">>)),
        Jsx(T, <<"t", "i", "t", "l", "e">>, Part("call", <<"t">>, Save), lit(HelloWorld)),
        [Line("code", <<>>, <<>>) EXCEPT !.value = Part("call", <<"t">>, Save)],
        Jsx(T, <<>>, NoPart, Part("call", <<"t">>, Save)),
        Jsx(P, <<>>, NoPart, Part("callvar", <<"t", "r">>, <<"g", "r", "e", "e", "t", "i", "n", "g">>)),
        Jsx(<<"T", "r", "a", "n", "s">>, <<>>, NoPart, Part("expr", <<>>, <<"n", "a", "m", "e">>)),
        Line("code", <<>>, <<>>),
        Line("broken", <<>>, <<>>)}

MaxParseLines == 2

ParseContents == UNION {[1..n -> ParseLines] : n \in 1..MaxParseLines}

\* a parser of each configuration, and the content it is given
ParseInit ==
    /\ disk = NoFields
    /\ wrapper = DefaultWrapper
    /\ \E options \in ParserOptions, content \in ParseContents :
          wrap = [IdleWrap EXCEPT !.parser = ASTParser(options), !.input = content]
    /\ answers = NoFields
    /\ rewritten = {}
    /\ ret = IdleRet
    /\ saved = NoFields
    /\ hashes = NoFields
    /\ src = Undefined
    /\ tgt = Undefined
    /\ call = IdleCall
    /\ lastOk = NoFields
    /\ cli = IdleCli
    /\ ProcIdle

ParseNext == \E filePath \in {<<"u", "n", "k", "n", "o", "w", "n">>, <<"A", "p", "p", ".", "t", "s", "x">>} : CallParseContent(filePath)

SpecParse == ParseInit /\ [][ParseNext]_vars

(***************************************************************************)
(* LokalProvider: its state, its two load effects and setLocale, with the  *)
(* storage reads and writes it has started and that complete in any order. *)
(* The provider is given locales = ['en', 'es'] and a storage; locale,     *)
(* translations, fallbackLocale take their defaults ('en', {}, 'en'), and  *)
(* initialTranslations and onLocaleChange are not given.  A text that is   *)
(* null or empty is <<>>.                                                  *)
(***************************************************************************)
Locales == {En, Es}

De == <<"d", "e">>

\* navigator.language.split('-')[0]
BrowserLocale(language) ==
    LET dashes == {i \in 1..Len(language) : language[i] = "-"}
    IN IF dashes = {} THEN language
       ELSE SubSeq(language, 1, (CHOOSE i \in dashes : \A j \in dashes : i <= j) - 1)

\* the effect "Load translations for current locale", run after a render in
\* which locale or isLoading has changed (was: the state before): it calls
\* storage.getItem and leaves the read pending
LoadTranslationsEffect(was, now) ==
    IF (now.locale # was.locale \/ now.isLoading # was.isLoading \/ was.pc = "idle")
       /\ ~now.isLoading
    THEN [now EXCEPT !.started = @ + 1,
                     !.pending = @ \cup {[id |-> now.started + 1, op |-> "getTranslations",
                                          locale |-> now.locale]}]
    ELSE now

\* the first render and its effects: the state from the props, the read of
\* the saved locale started, and the read of the translations if not loading
Mount ==
    /\ react.pc = "idle"
    /\ LET first == [react EXCEPT
                        !.pc = "mounted",
                        !.locale = IF react.ssrInitialLocale # <<>>
                                   THEN react.ssrInitialLocale ELSE En,
                        !.translations = EmptyObj,
                        !.isLoading = react.ssrInitialLocale # <<>>,
                        !.started = 1,
                        !.pending = {[id |-> 1, op |-> "getLocale", locale |-> <<>>]}]
       IN react' = LoadTranslationsEffect(react, first)
    /\ UNCHANGED <<storeVars, syncVars, cli, wrapVars, fetched, writer>>

\* loadLocale after its await: the saved locale, else the browser's, else the
\* one in state; the fallback when the read was rejected
LocaleRead(r) ==
    LET savedLocale == r.storage.locale
        browserLocale == BrowserLocale(r.navigator)
        chosen ==
            IF r.storage.rejects
            THEN IF r.ssrInitialLocale = <<>> THEN En ELSE r.locale
            ELSE IF savedLocale # <<>> /\ savedLocale \in Locales THEN savedLocale
            ELSE IF r.ssrInitialLocale = <<>> /\ r.navigator # <<>>
                    /\ browserLocale \in Locales
                 THEN browserLocale
            ELSE r.locale
    IN [r EXCEPT !.locale = chosen, !.isLoading = FALSE,
                 !.failed = @ \/ r.storage.rejects, !.warned = @ \/ r.storage.rejects]

\* loadTranslations after its await, for the locale of the render that
\* started it
TranslationsRead(r, locale) ==
    LET storedData == r.storage.translations
    IN IF r.storage.rejects \/ storedData.kind = "garbage"
       THEN [r EXCEPT !.failed = TRUE, !.warned = TRUE]
       ELSE IF storedData.kind = "json" /\ locale \in DOMAIN storedData.value
            THEN [r EXCEPT !.translations = storedData.value[locale]]
       ELSE r

\* a pending storage call completes and the code after its await runs
Complete(p) ==
    /\ react.pc = "mounted"
    /\ p \in react.pending
    /\ LET rest == [react EXCEPT !.pending = @ \ {p}]
           now == CASE p.op = "getLocale" -> LocaleRead(rest)
                    [] p.op = "getTranslations" -> TranslationsRead(rest, p.locale)
                    [] OTHER ->
                         IF rest.storage.rejects THEN [rest EXCEPT !.warned = TRUE]
                         ELSE [rest EXCEPT !.storage.locale = p.locale]
       IN react' = LoadTranslationsEffect(react, now)
    /\ UNCHANGED <<storeVars, syncVars, cli, wrapVars, fetched, writer>>

MaxSelects == 2

\* setLocale(newLocale)
SetLocale(newLocale) ==
    /\ react.pc = "mounted"
    /\ react.selects < MaxSelects
    /\ LET counted == [react EXCEPT !.selects = @ + 1]
           now == IF newLocale \notin Locales THEN [counted EXCEPT !.warned = TRUE]
                  ELSE [counted EXCEPT
                           !.locale = newLocale,
                           !.started = @ + 1,
                           !.pending = @ \cup {[id |-> counted.started + 1,
                                                op |-> "setItem", locale |-> newLocale]}]
       IN react' = LoadTranslationsEffect(react, now)
    /\ UNCHANGED <<storeVars, syncVars, cli, wrapVars, fetched, writer>>

\* the stored translations: none, text that is no JSON, and documents with
\* both locales or with en alone
StoredTranslations ==
    LET en == Obj([n \in {"greeting"} |-> Str("Hello")])
        es == Obj([n \in {"greeting"} |-> Str("Hola")])
    IN {[kind |-> "null", value |-> NoFields],
        [kind |-> "garbage", value |-> NoFields],
        [kind |-> "json", value |-> [l \in {En, Es} |-> IF l = En THEN en ELSE es]],
        [kind |-> "json", value |-> [l \in {En} |-> en]]}

ReactInit ==
    /\ \E ssr \in {<<>>, Es}, language \in {<<>>, <<"e", "s", "-", "E", "S">>, <<"d", "e">>},
          rejects \in BOOLEAN, savedLocale \in {<<>>, En, Es, De},
          storedData \in StoredTranslations :
          react = [IdleReact EXCEPT
                      !.ssrInitialLocale = ssr, !.navigator = language,
                      !.storage = [rejects |-> rejects, locale |-> savedLocale,
                                   translations |-> storedData]]
    /\ fetched = IdleFetch
    /\ writer = IdleWriter
    /\ disk = NoFields
    /\ WrapIdle
    /\ ret = IdleRet
    /\ saved = NoFields
    /\ hashes = NoFields
    /\ src = Undefined
    /\ tgt = Undefined
    /\ call = IdleCall
    /\ lastOk = NoFields
    /\ cli = IdleCli

ReactNext ==
    \/ Mount
    \/ \E p \in react.pending : Complete(p)
    \/ \E newLocale \in {En, Es, De} : SetLocale(newLocale)

SpecReact == ReactInit /\ [][ReactNext]_vars

(***************************************************************************)
(* The locale files: one FileStorage on the project's locales directory,   *)
(* next to `lokal init` and to whatever else left content there            *)
(***************************************************************************)
\* initCommand, lines 74-85: the default locale file lokal init writes when
\* the locale has none; its content is initialData, not a LocaleFile
InitialData ==
    Obj([_meta |-> Obj([generated |-> Str("2026-11-03T00:00:00.000Z"),
                        description |-> Str("Default locale file")])])

InitCommand ==
    /\ ret.op = "idle"
    /\ getLocalePath(DefaultLocale).path \notin DOMAIN disk
    /\ disk' = [q \in DOMAIN disk \cup {getLocalePath(DefaultLocale).path} |->
                   IF q = getLocalePath(DefaultLocale).path
                   THEN [kind |-> "file", text |-> StringifyValue(InitialData)]
                   ELSE disk[q]]
    /\ UNCHANGED <<ret, saved, syncVars, cli, wrapVars, procVars>>

\* --- inputs of the locale files specification
\* the identifiers the callers use: en, fr and en again written as a path
FileIds == {En, Fr, <<".", "/">> \o En}

FileCatalogs ==
    {EmptyObj,
     Obj([hello |-> Str("world")]),
     Obj([common |-> Obj([greeting |-> Str("Hello")]), __proto__ |-> Str("")])}

\* the first n tokens of a document: what a write that was cut short leaves
Truncated(content, n) == [kind |-> "file", text |-> SubSeq(content.text, 1, n)]

\* what en.json may hold before the storage is used: nothing, a document of
\* an earlier run, one cut short, a bare JSON string, or a directory
FoundContents ==
    LET doc == JSONStringify(LocaleFile(En, Obj([hello |-> Str("world")])))
    IN {doc, Directory, [kind |-> "file", text |-> <<StrTok("en")>>]}
       \cup {Truncated(doc, n) : n \in 0..(Len(doc.text) - 1)}

FilesInit ==
    /\ \/ disk = NoFields
       \/ \E c \in FoundContents : disk = [q \in {getLocalePath(En).path} |-> c]
    /\ ret = IdleRet
    /\ hashes = NoFields
    /\ src = Undefined
    /\ tgt = Undefined
    /\ call = IdleCall
    /\ lastOk = NoFields
    /\ cli = IdleCli
    /\ ProcIdle
    /\ saved = NoFields
    /\ WrapIdle

FilesNext ==
    \/ \E id \in FileIds, data \in FileCatalogs : CallSaveLocale(id, data)
    \/ \E id \in FileIds : CallLoadLocale(id)
    \/ \E id \in FileIds : CallDeleteLocale(id)
    \/ InitCommand
    \/ Return

SpecFiles == FilesInit /\ [][FilesNext]_vars

(***************************************************************************)
(* A saveLocale in one process, seen by a loadLocale in another: the       *)
(* system calls of fs.writeFileSync are the steps the reader can fall      *)
(* between                                                                 *)
(***************************************************************************)
\* saveLocale up to the open of fs.writeFileSync (flag 'w'): the file exists
\* and is empty
BeginSave(locale, data) ==
    /\ writer.pc = "idle"
    /\ \E r \in {saveLocale(disk, locale, data)} :
          /\ ~r.thrown
          /\ \E path \in {getLocalePath(locale).path} :
                /\ writer' = [pc |-> "writing", locale |-> locale, path |-> path,
                              content |-> r.disk[path].text, written |-> 0,
                              before |-> disk]
                /\ disk' = [r.disk EXCEPT ![path].text = <<>>]
    /\ UNCHANGED <<ret, saved, syncVars, cli, wrapVars, fetched, react>>

\* one write call of fs.writeFileSync: the next n tokens reach the file
WriteChunk(n) ==
    /\ writer.pc = "writing"
    /\ writer.written + n <= Len(writer.content)
    /\ writer' = [writer EXCEPT !.written = @ + n]
    /\ disk' = [disk EXCEPT ![writer.path].text =
                                SubSeq(writer.content, 1, writer.written + n)]
    /\ UNCHANGED <<ret, saved, syncVars, cli, wrapVars, fetched, react>>

\* the close of fs.writeFileSync: saveLocale returns
EndSave ==
    /\ writer.pc = "writing"
    /\ writer.written = Len(writer.content)
    /\ writer' = [writer EXCEPT !.pc = "idle"]
    /\ UNCHANGED <<disk, ret, saved, syncVars, cli, wrapVars, fetched, react>>

RaceInit ==
    /\ \/ disk = NoFields
       \/ \E data \in FileCatalogs :
             disk = saveLocale(NoFields, En, data).disk
    /\ ret = IdleRet
    /\ hashes = NoFields
    /\ src = Undefined
    /\ tgt = Undefined
    /\ call = IdleCall
    /\ lastOk = NoFields
    /\ cli = IdleCli
    /\ ProcIdle
    /\ saved = NoFields
    /\ WrapIdle

RaceNext ==
    \/ \E data \in FileCatalogs : BeginSave(En, data)
    \/ \E n \in 1..Len(writer.content) : WriteChunk(n)
    \/ EndSave
    \/ CallLoadLocale(En)
    \/ Return

SpecRace == RaceInit /\ [][RaceNext]_vars

(***************************************************************************)
(* Claims on the locale store                                              *)
(***************************************************************************)
\* no prefix of path p (p included) is a string leaf of v
NoLeafOnPath(v, p) == \A i \in 0..Len(p) : At(v, SubSeq(p, 1, i)).t # "s"

CleanPath(p) == \A i \in 1..Len(p) : p[i] \notin ForbiddenKeys

\* C1: mergeLocaleData with preserveExisting=true keeps the persisted value at
\* every key path that is a leaf in both catalogs, adds the key paths only
\* newData holds and keeps the key paths only the persisted catalog holds.
C1_ExistingLeafWins ==
    (ret.op = "merge" /\ ret.preserve /\ ret.found /\ ~ret.thrown) =>
        /\ \A p \in LeafPaths(ret.existing) \cap LeafPaths(ret.newData) :
              At(ret.data, p) = At(ret.existing, p)
        /\ \A p \in LeafPaths(ret.newData) :
              (CleanPath(p) /\ NoLeafOnPath(ret.existing, p) /\ At(ret.existing, p).t = "u")
                  => At(ret.data, p) = At(ret.newData, p)
        /\ \A p \in LeafPaths(ret.existing) :
              (NoLeafOnPath(ret.newData, p) /\ At(ret.newData, p).t = "u")
                  => At(ret.data, p) = At(ret.existing, p)

\* C2: the catalog mergeLocaleData returns has no own property named
\* __proto__, constructor or prototype at any depth, whatever the payload and
\* whether or not the locale has a file.
C2_NoForbiddenKeys ==
    (ret.op = "merge" /\ ~ret.thrown) =>
        \A p \in PropPaths(ret.data) : p[Len(p)] \notin ForbiddenKeys

\* C3: loadLocale and saveLocale raise, before any filesystem call, for every
\* identifier that contains '..' or whose resolved path is not inside the
\* storage root directory.
C3_EscapingLocaleRejected ==
    (ret.op \in {"load", "save"} /\ (Includes(ret.locale, DotDot) \/ ~InsideRoot(ret.locale)))
        => (ret.thrown /\ ret.fsOps = 0)

(***************************************************************************)
(* Claims on the sync engine                                               *)
(***************************************************************************)
\* the dot-path keys of the source of the last call
SourceKeys == {p \in LeafPaths(call.source) : TRUE}

RequestedKeys == {call.requests[i].context : i \in 1..Len(call.requests)}

\* the target value of key k before the call is a non-empty string
TargetPresent(k) == At(call.targetBefore, k).t = "s" /\ At(call.targetBefore, k).s # ""

\* C4: translateMissingKeys never mutates its targetCatalog argument, nested
\* mappings included.
C4_TargetNotMutated ==
    call.op = "translate" => call.targetAfter = call.targetBefore

\* C5: a key is never requested again while its source value is the one of its
\* last successful translation on this instance.
C5_NoRerequestUnchanged ==
    call.op = "translate" =>
        \A i \in 1..Len(call.requests) :
            LET k == call.requests[i].context
            IN k \in DOMAIN call.lastOkBefore
                   => At(call.source, k) # Str(call.lastOkBefore[k])

\* C5 witness: a key translated before, its source unchanged and its target
\* value absent or equal to the source, is left out of a call that requests
\* another key.
C5_Witness ==
    /\ call.op = "translate"
    /\ call.requests # <<>>
    /\ \E k \in SourceKeys :
          /\ k \in DOMAIN call.lastOkBefore
          /\ At(call.source, k) = Str(call.lastOkBefore[k])
          /\ ~(TargetPresent(k) /\ At(call.targetBefore, k) # At(call.source, k))
          /\ k \notin RequestedKeys

\* C6: a key whose source text changed after its successful translation is
\* requested by the next call that is given the previous result as target, no
\* unchanged key is, and the returned catalog holds the new translation.
C6_ChangedSourceRetranslated ==
    (call.op = "translate" /\ call.fromResult) =>
        \A k \in SourceKeys :
            k \in DOMAIN call.lastOkBefore =>
                IF At(call.source, k) # Str(call.lastOkBefore[k])
                THEN /\ k \in RequestedKeys
                     /\ \A i \in 1..Len(call.requests) :
                           (call.requests[i].context = k /\ call.results[i].success)
                               => At(call.returned, k) = Str(call.results[i].translatedText)
                ELSE k \notin RequestedKeys

\* C7: on a new engine instance, with source keys that have no value in the
\* target, one batch is sent, with one request per such key (context the key,
\* sourceText its source value), and every successful result is in the
\* returned catalog at its key.
C7_FirstCallTranslatesMissing ==
    (/\ call.op = "translate"
     /\ call.hashesBefore = NoFields
     /\ \E k \in SourceKeys : At(call.targetBefore, k).t # "s") =>
        /\ call.batches = 1
        /\ \A k \in SourceKeys :
              At(call.targetBefore, k).t # "s" =>
                  Cardinality({i \in 1..Len(call.requests) :
                                  /\ call.requests[i].context = k
                                  /\ Str(call.requests[i].sourceText) = At(call.source, k)}) = 1
        /\ ~call.thrown
        /\ \A i \in 1..Len(call.requests) :
              call.results[i].success =>
                  At(call.returned, call.requests[i].context)
                      = Str(call.results[i].translatedText)

C9_FailedResultIsolated ==
    (call.op = "translate" /\ \E i \in 1..Len(call.requests) : ~call.results[i].success) =>
        /\ ~call.thrown
        /\ \A i \in 1..Len(call.requests) :
              IF call.results[i].success
              THEN At(call.returned, call.requests[i].context)
                       = Str(call.results[i].translatedText)
              ELSE At(call.returned, call.requests[i].context)
                       = At(call.targetBefore, call.requests[i].context)

(***************************************************************************)
(* Claims on lokal translate                                               *)
(***************************************************************************)
\* C10: after `lokal translate --all` with a provider that answered every
\* request with success, the saved catalog of every configured non-default
\* locale has a value for every source key it had none for before the run.
C10_AllLocalesTranslated ==
    (cli.pc = "done" /\ cli.all /\ ~cli.failedAnswers) =>
        \A i \in 1..Len(NonDefaultLocales) :
            LET l == NonDefaultLocales[i]
            IN \A k \in LeafPaths(cli.sourceData) :
                   At(cli.before[l], k).t # "s" => At(CatalogOf(disk, l), k).t = "s"

(***************************************************************************)
(* Claims on the locale files                                              *)
(***************************************************************************)
\* C13: a loadLocale of a locale that was saved, and not saved again or deleted
\* since, returns a LocaleFile whose data is the saved catalog and whose
\* locale is that identifier, whatever was saved under other identifiers.
C13_SaveLoadRoundTrip ==
    (ret.op = "load" /\ ret.locale \in DOMAIN saved) =>
        /\ ~ret.thrown
        /\ ret.found
        /\ ret.file.data = saved[ret.locale]
        /\ ret.file.locale = Str(ToStr(ret.locale))

\* C20: loadLocale of a valid identifier does not raise, and what it returns
\* as present has a catalog (an object) in data.
C20_LoadedIsLocaleFile ==
    ret.op = "load" =>
        /\ ~ret.thrown
        /\ ret.found => TypeOf(ret.file.data) = "object"

C14_SameTextSameAnswer == \A x \in DOMAIN answers : Cardinality(answers[x]) = 1

\* C15: with no custom exclusion pattern, an element with title="Save" is
\* reported as one WrappedString (original "Save", key <file>_save) and its
\* attribute is rewritten to title={t('<file>_save')}.
C15_AttributeLiteralWrapped ==
    (wrap.op = "wrapContent" /\ ~wrap.rerun /\ wrapper.excludePatterns = <<>>) =>
        \A i \in 1..Len(wrap.input) :
            (/\ wrap.input[i].kind = "jsx"
             /\ wrap.input[i].attr = <<"t", "i", "t", "l", "e">>
             /\ wrap.input[i].value = Part("literal", <<>>, Save)) =>
                LET key == BaseName(wrap.file) \o <<"_", "s", "a", "v", "e">>
                IN /\ \E j \in 1..Len(wrap.wrapped) :
                          /\ wrap.wrapped[j].original = Save
                          /\ wrap.wrapped[j].key = key
                   /\ \E k \in 1..Len(wrap.output) :
                          /\ wrap.output[k].attr = wrap.input[i].attr
                          /\ wrap.output[k].value = Part("call", wrapper.functionName, key)

\* the attribute names the claim lists: id, class, className, src, href,
\* target, rel, role, every aria- attribute, the SVG geometry attributes
ListedAttribute(name) ==
    \/ name \in {<<"i", "d">>, <<"c", "l", "a", "s", "s">>,
                  <<"c", "l", "a", "s", "s", "N", "a", "m", "e">>, <<"s", "r", "c">>,
                  <<"h", "r", "e", "f">>, <<"t", "a", "r", "g", "e", "t">>,
                  <<"r", "e", "l">>, <<"r", "o", "l", "e">>}
    \/ StartsWith(name, <<"a", "r", "i", "a", "-">>)
    \/ name \in {<<"x">>, <<"y">>, <<"c", "x">>, <<"c", "y">>, <<"r", "x">>,
                  <<"r", "y">>, <<"w", "i", "d", "t", "h">>,
                  <<"h", "e", "i", "g", "h", "t">>, <<"d">>}

\* C16: no attribute literal is reported as wrapped when its attribute name is
\* one the claim lists or its value is a boilerplate value.
C16_ListedAttributeNeverWrapped ==
    wrap.op \in {"wrapContent", "wrapFile"} =>
        \A i \in 1..Len(wrap.input) :
            (/\ wrap.input[i].kind = "jsx"
             /\ wrap.input[i].value.form = "literal"
             /\ \/ ListedAttribute(wrap.input[i].attr)
                \/ Trim(ToLowerCase(wrap.input[i].value.text)) \in techValues) =>
                ~\E j \in 1..Len(wrap.wrapped) :
                     wrap.wrapped[j].line = i /\ ~wrap.wrapped[j].wrapped.braces

\* the lines of content that are import statements naming fn
ImportsOf(content, fn) ==
    {i \in 1..Len(content) :
        /\ content[i].kind = "import"
        /\ \E n \in 1..Len(content[i].names) : content[i].names[n] = fn}

\* C17: when wrapFile wrote a file that had no import of the translation
\* function, the file has exactly one, after every other import statement and
\* not inside a comment; and every file wrapFile wrote has exactly one.
C17_OneImportAfterImports ==
    /\ (wrap.op = "wrapFile" /\ wrap.wrote
            /\ ImportsOf(wrap.input, wrapper.functionName) = {}) =>
           /\ Cardinality(ImportsOf(wrap.output, wrapper.functionName)) = 1
           /\ \A k \in ImportsOf(wrap.output, wrapper.functionName) :
                 /\ \A j \in 1..Len(wrap.output) :
                       (wrap.output[j].kind = "import" /\ j # k) => j < k
                 /\ ~\E o \in 1..(k - 1) :
                        /\ wrap.output[o].kind = "blockOpen"
                        /\ ~\E c \in (o + 1)..(k - 1) : wrap.output[c].kind = "blockClose"
    /\ \A f \in rewritten :
           Cardinality(ImportsOf(disk[f].text, wrapper.functionName)) = 1

(***************************************************************************)
(* Claims on the directory walks                                           *)
(***************************************************************************)
\* C12: after wrapDirectory with dryRun = true, every file on disk holds what
\* it held before the call.
C12_DryRunLeavesFiles ==
    (wrap.op = "wrapDirectory" /\ wrap.dryRun) => disk = wrap.diskBefore

\* the source files below dirPath on filesystem d that no entry name
\* matching skip hides from a walk
WalkFiles(d, dirPath, skip(_)) ==
    {f \in DOMAIN d :
        /\ d[f].kind = "file"
        /\ Len(f) > Len(dirPath) /\ SubSeq(f, 1, Len(dirPath)) = dirPath
        /\ \A i \in (Len(dirPath) + 1)..Len(f) : ~skip(f[i])
        /\ ExtName(f[Len(f)]) \in DefaultExtensions}

\* file f of filesystem d cannot be read or parsed
FailsToParse(d, f) == d[f].mode = "none" \/ parse(d[f].text).thrown

\* C18: a walk raises only when a directory cannot be listed, never for a
\* file; when it does not raise, every source file it is to visit is
\* reported once, in the order of the walk or in its list of visited files,
\* and each file that cannot be read, parsed or written has an error of its
\* own (in its WrapResult, or naming it in the scan's errors).
C18_FileFailureIsolated ==
    LET d == wrap.diskBefore
        results == wrap.results
        listable == \A f \in DOMAIN d : d[f].kind = "dir" => d[f].mode # "none"
        hidden(name) == name = <<"n", "o", "d", "e", "_", "m", "o", "d", "u", "l", "e", "s">> \/ StartsWith(name, <<".">>)
        kept(name) == hidden(name) \/ name = <<"l", "o", "c", "a", "l", "e", "s">> \/ name = <<".", "l", "o", "k", "a", "l">>
    IN /\ wrap.op \in {"wrapDirectory", "scanDirectory"} => (wrap.thrown => ~listable)
       /\ (wrap.op = "wrapDirectory" /\ ~wrap.thrown) =>
             /\ {results[i].file : i \in 1..Len(results)} = WalkFiles(d, wrap.file, kept)
             /\ Len(results) = Cardinality(WalkFiles(d, wrap.file, kept))
             /\ \A i \in 1..Len(results) :
                   (\/ FailsToParse(d, results[i].file)
                    \/ results[i].modified /\ d[results[i].file].mode = "ro") =>
                       \E e \in 1..Len(results[i].errors) :
                           results[i].errors[e].file = results[i].file
       /\ (wrap.op = "scanDirectory" /\ ~wrap.thrown) =>
             /\ {wrap.files[i] : i \in 1..Len(wrap.files)} = WalkFiles(d, wrap.file, hidden)
             /\ Len(wrap.files) = Cardinality(WalkFiles(d, wrap.file, hidden))
             /\ \A f \in WalkFiles(d, wrap.file, hidden) :
                   FailsToParse(d, f) =>
                       \E e \in 1..Len(wrap.errors) : wrap.errors[e].file = f

\* C18 witness: a wrapDirectory that did not raise reported a file with an
\* error and, after it, a file it rewrote without error.
C18_Witness ==
    /\ wrap.op = "wrapDirectory" /\ ~wrap.thrown
    /\ \E i, j \in 1..Len(wrap.results) :
          /\ i < j
          /\ FailsToParse(wrap.diskBefore, wrap.results[i].file)
          /\ wrap.results[i].errors # <<>>
          /\ wrap.results[j].errors = <<>> /\ wrap.results[j].modified
          /\ disk[wrap.results[j].file] # wrap.diskBefore[wrap.results[j].file]

\* C19: no file a walk processed lies below a hidden entry, below
\* node_modules or below the configured catalog-output directory.
C19_SkippedDirectoriesNotWalked ==
    LET processed ==
            IF wrap.op = "wrapDirectory"
            THEN {wrap.results[i].file : i \in 1..Len(wrap.results)}
            ELSE {wrap.files[i] : i \in 1..Len(wrap.files)}
    IN wrap.op \in {"wrapDirectory", "scanDirectory"} =>
          \A f \in processed :
              /\ \A i \in (Len(wrap.file) + 1)..Len(f) :
                    ~(f[i] = <<"n", "o", "d", "e", "_", "m", "o", "d", "u", "l", "e", "s">> \/ StartsWith(f[i], <<".">>))
              /\ ~StartsWith(f, wrap.outputDir)

(***************************************************************************)
(* Claims on key generation                                                *)
(***************************************************************************)
\* the words of a text: its maximal runs of characters that are no whitespace
WordsOf(text) ==
    LET starts == {i \in 1..Len(text) :
                      ~Space(text[i]) /\ (i = 1 \/ Space(text[i - 1]))}
        end(i) == CHOOSE j \in i..Len(text) :
                      /\ \A k \in i..j : ~Space(text[k])
                      /\ j = Len(text) \/ Space(text[j + 1])
        RECURSIVE from(_)
        from(i) ==
            IF i > Len(text) THEN <<>>
            ELSE IF i \in starts THEN <<SubSeq(text, i, end(i))>> \o from(end(i) + 1)
            ELSE from(i + 1)
    IN from(1)

\* the slug of a text: lowercased, only a-z, 0-9 and whitespace kept, its
\* words joined by one underscore each
SlugOf(text) ==
    LET words == WordsOf(SelectSeq(ToLowerCase(text),
                     LAMBDA c : c \in {LowerCase[k] : k \in 1..26} \/ Digit(c) \/ Space(c)))
        RECURSIVE joined(_)
        joined(i) ==
            IF i > Len(words) THEN <<>>
            ELSE (IF i > 1 THEN <<"_">> ELSE <<>>) \o words[i] \o joined(i + 1)
    IN joined(1)

\* C22: the key generateKey returns is <prefix>_<base name>_<slug>, without
\* the prefix part when no prefix is configured, and each text and base name
\* has had one key only over the calls on one wrapper.
C22_KeyIsPrefixBaseSlug ==
    /\ wrap.op = "generateKey" =>
          LET name == wrap.file[Len(wrap.file)]
              dots == {i \in 2..Len(name) : name[i] = "."}
              base == IF dots = {} THEN name
                      ELSE SubSeq(name, 1, (CHOOSE i \in dots : \A j \in dots : j <= i) - 1)
          IN wrap.key = (IF wrapper.keyPrefix = <<>> THEN <<>>
                         ELSE wrapper.keyPrefix \o <<"_">>)
                        \o base \o <<"_">> \o SlugOf(wrap.text)
    /\ \A x \in DOMAIN answers : Cardinality(answers[x]) = 1

\* C22 witness: generateKey('  Hello,   World ', 'src/lib/App.tsx') on a
\* wrapper with prefix 'app' returned 'app_App_hello_world'.
C22_Witness ==
    /\ wrap.op = "generateKey"
    /\ wrap.text = <<" ", " ", "H", "e", "l", "l", "o", ",", " ", " ", " ", "W", "o", "r", "l", "d", " ">>
    /\ wrap.file = <<<<"s", "r", "c">>, <<"l", "i", "b">>, <<"A", "p", "p", ".", "t", "s", "x">>>>
    /\ wrap.key = <<"a", "p", "p", "_", "A", "p", "p", "_", "h", "e", "l", "l", "o", "_", "w", "o", "r", "l", "d">>
    /\ Cardinality(DOMAIN answers) = 1
    /\ wrapper.keyPrefix # <<>>

(***************************************************************************)
(* Claims on one wrap pass                                                 *)
(***************************************************************************)
\* C23: in the result of one pass over one file, two entries with the same
\* key have the same original text.
C23_KeysUniqueInFile ==
    wrap.op \in {"wrapContent", "wrapFile"} =>
        \A i, j \in 1..Len(wrap.wrapped) :
            wrap.wrapped[i].key = wrap.wrapped[j].key =>
                wrap.wrapped[i].original = wrap.wrapped[j].original

\* C27: after a pass over parsable content, every attribute literal whose
\* name is not a listed one, whose value is no boilerplate value and which
\* shouldExclude lets pass, and every text child which shouldExclude lets
\* pass, is reported by exactly one WrappedString with its generated key and
\* is a call of the translation function with that key in the output; no
\* location is reported twice.
C27_EveryLiteralWrappedOnce ==
    (wrap.op = "wrapContent" /\ ~wrap.rerun /\ wrap.errors = <<>>) =>
        LET passes(text) == ~shouldExclude(wrapper, wrapper.lastIndex, text).excluded
            entries(i, braces, text) ==
                {j \in 1..Len(wrap.wrapped) :
                    /\ wrap.wrapped[j].line = i
                    /\ wrap.wrapped[j].wrapped.braces = braces
                    /\ wrap.wrapped[j].original = text
                    /\ wrap.wrapped[j].key = generateKey(wrapper, text, wrap.file)}
            tcall(text) == Part("call", wrapper.functionName,
                                generateKey(wrapper, text, wrap.file))
        IN /\ \A i \in 1..Len(wrap.input) :
                 LET node == wrap.input[i]
                 IN /\ (/\ node.kind = "jsx"
                        /\ node.value.form = "literal"
                        /\ ~ListedAttribute(node.attr)
                        /\ Trim(ToLowerCase(node.value.text)) \notin techValues
                        /\ passes(node.value.text)) =>
                           /\ Cardinality(entries(i, FALSE, node.value.text)) = 1
                           /\ wrap.output[i].value = tcall(node.value.text)
                    /\ (/\ node.kind = "jsx"
                        /\ node.child.form = "literal"
                        /\ passes(Trim(node.child.text))) =>
                           /\ Cardinality(entries(i, TRUE, Trim(node.child.text))) = 1
                           /\ wrap.output[i].child = tcall(Trim(node.child.text))
           /\ \A j, k \in 1..Len(wrap.wrapped) :
                 (/\ wrap.wrapped[j].line = wrap.wrapped[k].line
                  /\ wrap.wrapped[j].wrapped.braces = wrap.wrapped[k].wrapped.braces) =>
                     j = k

(***************************************************************************)
(* Claims on the Gemini provider                                           *)
(***************************************************************************)
\* C24: the request of every translate call has the header x-goog-api-key
\* with the provider's API key, and its URL does not contain the API key.
C24_ApiKeyInHeaderOnly ==
    fetched.op = "translate" =>
        /\ "x-goog-api-key" \in DOMAIN fetched.headers
        /\ fetched.headers["x-goog-api-key"] = fetched.apiKey
        /\ ~Includes(fetched.url, fetched.apiKey)

(***************************************************************************)
(* Claims on the content hash                                              *)
(***************************************************************************)
\* C25: the hash stamped in a saved locale file is the hash of no catalog
\* other than the saved one: every catalog that differs from it in a key or a
\* leaf value at any depth has another hash.
C25_HashDetectsEveryChange ==
    (ret.op = "load" /\ ret.found /\ ~ret.thrown /\ ret.locale \in DOMAIN saved) =>
        \A c \in StoreCatalogs :
            hashLocaleData(c) = ret.file.hash => c = ret.file.data

(***************************************************************************)
(* Claims on the sync engine's keys                                        *)
(***************************************************************************)
\* the dot-notation key flattenKeys gives the leaf at path p of own property
\* names, as the parts key.split('.') yields
RECURSIVE FlatKey(_)
FlatKey(p) == IF p = <<>> THEN <<>> ELSE SplitDot(Head(p)) \o FlatKey(Tail(p))

\* C26: for each string leaf of the source catalog, the value the engine
\* reads for the leaf's key is the leaf; a request with that key as context
\* carries the leaf as sourceText; and an applied translation is what a read
\* of the key finds in the returned catalog.
C26_KeyReadsItsLeaf ==
    call.op = "translate" =>
        \A p \in LeafPaths(call.source) :
            /\ getValueByKey(call.source, FlatKey(p)) = At(call.source, p).s
            /\ \A i \in 1..Len(call.requests) :
                  call.requests[i].context = FlatKey(p) =>
                      /\ call.requests[i].sourceText = At(call.source, p).s
                      /\ (~call.thrown /\ \E j \in 1..Len(call.applied) :
                                             call.applied[j] = i) =>
                            getValueByKey(call.returned, FlatKey(p))
                                = call.results[i].translatedText

\* C29: after a call, a key whose request failed has no new entry in the hash
\* cache; the next call with the same source and target requests it again;
\* and when the provider then succeeds, the returned catalog holds the
\* translation at the key.
C29_FailedKeyRetried ==
    call.op = "translate" =>
        \A i \in 1..Len(call.requests) :
            ~call.results[i].success =>
                LET k == call.requests[i].context
                    again == BuildRequests(hashes, call.source, call.targetAfter, "en", "es")
                    next == translateMissingKeys(hashes, call.source, call.targetAfter,
                                "en", "es",
                                [j \in 1..Len(again) |->
                                    [success |-> TRUE, translatedText |-> "Hola"]])
                IN /\ k \in DOMAIN hashes =>
                         k \in DOMAIN call.hashesBefore /\ hashes[k] = call.hashesBefore[k]
                   /\ \E j \in 1..Len(again) : again[j].context = k
                   /\ ~next.thrown
                   /\ At(next.returned, k) = Str("Hola")

(***************************************************************************)
(* Claims on concurrent readers of the locale files                        *)
(***************************************************************************)
\* C21: what a loadLocale returned while a saveLocale of the same locale was
\* under way is what it returns on the files as they were before the save or
\* on the files as they are after it.
C21_ReaderSeesWholeDocument ==
    (ret.op = "load" /\ writer.pc = "writing" /\ ret.locale = writer.locale) =>
        LET seen == [found |-> ret.found, file |-> ret.file]
            old == loadLocale(writer.before, ret.locale)
            new == loadLocale([disk EXCEPT ![writer.path].text = writer.content],
                              ret.locale)
        IN \/ seen = [found |-> old.found, file |-> old.file]
           \/ seen = [found |-> new.found, file |-> new.file]

(***************************************************************************)
(* Claims on the scanner                                                   *)
(***************************************************************************)
\* the texts parseContent is to extract from one line: the text of each call
\* of the translation function with a literal argument, and the trimmed text
\* of a marker element whose only child is text that is not blank
Extractable(p, line) ==
    LET calls(part) == IF part.form = "call" /\ part.fn = p.functionName
                       THEN <<part.text>> ELSE <<>>
        marked == IF line.kind = "jsx" /\ line.tag = p.componentName
                     /\ line.child.form = "literal" /\ Trim(line.child.text) # <<>>
                  THEN <<Trim(line.child.text)>> ELSE <<>>
    IN marked \o calls(line.value) \o calls(line.child)

\* C28: from a content that parses, parseContent returns for every line exactly
\* the entries of its calls of the translation function with a literal
\* argument and of its marker element with a text child, each with the text as
\* key and value, and no entry for a line whose call has a variable as argument
\* or whose marker element has an expression as child; from a content that
\* does not parse it returns no entry and one error.
C28_ExtractsExactlyTwoShapes ==
    wrap.op = "parseContent" =>
        LET content == wrap.input
            p == wrap.parser
            at(i) == SelectSeq(wrap.strings, LAMBDA s : s.line = i)
        IN IF \E i \in 1..Len(content) : content[i].kind = "broken"
           THEN wrap.strings = <<>> /\ Len(wrap.errors) = 1
           ELSE /\ wrap.errors = <<>>
                /\ \A k \in 1..Len(wrap.strings) :
                      /\ wrap.strings[k].line \in 1..Len(content)
                      /\ wrap.strings[k].value = wrap.strings[k].key
                      /\ wrap.strings[k].file = wrap.file
                /\ \A i \in 1..Len(content) :
                      /\ [k \in 1..Len(at(i)) |-> at(i)[k].key] = Extractable(p, content[i])
                      /\ (/\ content[i].value.form # "call"
                          /\ content[i].child.form \in {"callvar", "expr"}) =>
                            at(i) = <<>>

\* C28 witness: <T>Save</T>, then <p>{t(greeting)}</p>, scanned with the default
\* names: one entry, Save, of line 1.
C28_Witness ==
    /\ wrap.op = "parseContent"
    /\ wrap.parser = DefaultParser
    /\ Len(wrap.input) = 2
    /\ wrap.input[1].tag = <<"T">> /\ wrap.input[1].child = Part("literal", <<>>, Save)
    /\ wrap.input[2].child.form = "callvar" /\ wrap.input[2].child.fn = <<"t">>
    /\ Len(wrap.strings) = 1
    /\ wrap.strings[1].key = Save /\ wrap.strings[1].line = 1

(***************************************************************************)
(* Claims on the React provider                                            *)
(***************************************************************************)
\* C30: when no storage read is pending and none has failed, and the storage
\* holds translations for the locale in state, the translations in state are
\* those: a read started for the locale of an earlier render has not
\* overwritten them.
C30_TranslationsOfCurrentLocale ==
    (/\ react.pc = "mounted"
     /\ \A p \in react.pending : p.op = "setItem"
     /\ ~react.failed
     /\ react.storage.translations.kind = "json"
     /\ react.locale \in DOMAIN react.storage.translations.value) =>
        react.translations = react.storage.translations.value[react.locale]

====
